---------------------------- MODULE Spec2Model ----------------------------
(***************************************************************************)
(* A model of opencligen: the naming deriver and plan builder of package   *)
(* plan, and the request builder of the generated runtime.                 *)
(*                                                                         *)
(* Strings are sequences of runes.  A rune is written as a one-character   *)
(* string; the three non-ASCII runes of the model are written by their     *)
(* code point ("U+00C9" is E-acute, "U+00E9" is e-acute, "U+2102" is the   *)
(* double-struck capital C, an uppercase letter with no lowercase form).   *)
(***************************************************************************)
EXTENDS Integers, Sequences, FiniteSets, TLC

VARIABLES
    input,      \* naming: the identifier under derivation
    call,       \* naming: the last call, [fn, arg, in, ret]
    prev,       \* naming: the call whose result was fed to the last call
    spec,       \* plan: the normalized Spec, [Operations |-> <<...>>]
    plan,       \* plan: the outcome of Build, or NoPlan
    files,      \* plan: the outcome of Generator.generateCommands, or NoFiles
    req,        \* request: the runtime Request
    built,      \* request: the outcome of Request.Build, or NotBuilt
    rt,         \* runtime: the Runtime, [BaseURL, Headers]
    sent,       \* runtime: the request Do handed to the HTTP client, or NotSent
    resp,       \* runtime: the response under handling, or NoResponse
    out,        \* runtime: what was written to the output sink
    stderr,     \* runtime: what was written to os.Stderr
    err,        \* runtime: the error returned, or NoReturn
    sse,        \* runtime: the scanner and accumulator of handleSSE, or NoSSE
    cfg,        \* config: the environment, the config file and the outcome
    conc        \* runtime: the goroutines that share a Runtime, and its lock

vars == <<input, call, prev, spec, plan, files, req, built,
          rt, sent, resp, out, stderr, err, sse, cfg, conc>>

-----------------------------------------------------------------------------
(* Runes and strings *)

LowerLetters ==
    <<"a","b","c","d","e","f","g","h","i","j","k","l","m",
      "n","o","p","q","r","s","t","u","v","w","x","y","z">>

UpperLetters ==
    <<"A","B","C","D","E","F","G","H","I","J","K","L","M",
      "N","O","P","Q","R","S","T","U","V","W","X","Y","Z">>

Digits == <<"0","1","2","3","4","5","6","7","8","9">>

IndexIn(seq, c) == CHOOSE i \in 1..Len(seq) : seq[i] = c

Range(seq) == {seq[i] : i \in 1..Len(seq)}

\* The code point of a rune.
Code(c) ==
    CASE c \in Range(LowerLetters) -> 96 + IndexIn(LowerLetters, c)
      [] c \in Range(UpperLetters) -> 64 + IndexIn(UpperLetters, c)
      [] c \in Range(Digits)       -> 47 + IndexIn(Digits, c)
      [] c = " "      -> 32
      [] c = "%"      -> 37
      [] c = ","      -> 44
      [] c = "-"      -> 45
      [] c = "/"      -> 47
      [] c = ":"      -> 58
      [] c = "_"      -> 95
      [] c = "{"      -> 123
      [] c = "}"      -> 125
      [] c = "U+00C9" -> 201
      [] c = "U+00E9" -> 233
      [] c = "U+2102" -> 8450

\* The UTF-8 encoding of a rune, as Go stores it in a string.
UTF8(c) ==
    LET n == Code(c) IN
    IF n < 128 THEN <<n>>
    ELSE IF n < 2048 THEN <<192 + (n \div 64), 128 + (n % 64)>>
    ELSE <<224 + (n \div 4096), 128 + ((n \div 64) % 64), 128 + (n % 64)>>

\* unicode.IsUpper on a code point: ASCII A-Z, and the non-ASCII uppercase
\* letters of the model.  No code point in 128..191 is an uppercase letter.
IsUpperCode(n) == n \in 65..90 \/ n \in {201, 8450}

IsUpper(c) == IsUpperCode(Code(c))

\* unicode.ToLower: U+2102 has no lowercase mapping and is returned unchanged.
ToLower(c) ==
    CASE c \in Range(UpperLetters) -> LowerLetters[IndexIn(UpperLetters, c)]
      [] c = "U+00C9" -> "U+00E9"
      [] OTHER -> c

\* The regexp class [A-Z].
IsAsciiUpper(c) == c \in Range(UpperLetters)

\* unicode.IsSpace, as strings.Fields uses it.
IsSpace(c) == c = " "

HasPrefix(s, p) == Len(s) >= Len(p) /\ SubSeq(s, 1, Len(p)) = p

RECURSIVE Flatten(_)
Flatten(ss) == IF ss = <<>> THEN <<>> ELSE Head(ss) \o Flatten(Tail(ss))

\* The bytes of a Go string.
Bytes(s) == Flatten([i \in 1..Len(s) |-> UTF8(s[i])])

\* Go's < on strings: bytewise lexicographic.
RECURSIVE BytesLess(_, _)
BytesLess(x, y) ==
    IF y = <<>> THEN FALSE
    ELSE IF x = <<>> THEN TRUE
    ELSE IF Head(x) # Head(y) THEN Head(x) < Head(y)
    ELSE BytesLess(Tail(x), Tail(y))

StrLess(s, t) == BytesLess(Bytes(s), Bytes(t))

\* All strings over an alphabet of at most n runes.
RECURSIVE StringsUpTo(_, _)
StringsUpTo(alphabet, n) ==
    IF n = 0 THEN {<<>>}
    ELSE LET shorter == StringsUpTo(alphabet, n - 1)
         IN  shorter \cup {Append(s, c) : s \in shorter, c \in alphabet}

-----------------------------------------------------------------------------
(* package plan: the naming deriver *)

\* strings.Contains(res, "--")
HasDoubleHyphen(res) ==
    \E i \in 1..(Len(res) - 1) : res[i] = "-" /\ res[i + 1] = "-"

\* strings.ReplaceAll(res, "--", "-"): non-overlapping matches, left to right.
RECURSIVE ReplaceDoubleHyphen(_)
ReplaceDoubleHyphen(res) ==
    IF Len(res) < 2 THEN res
    ELSE IF res[1] = "-" /\ res[2] = "-"
         THEN <<"-">> \o ReplaceDoubleHyphen(SubSeq(res, 3, Len(res)))
         ELSE <<res[1]>> \o ReplaceDoubleHyphen(Tail(res))

\* for strings.Contains(res, "--") { res = strings.ReplaceAll(res, "--", "-") }
RECURSIVE CollapseHyphens(_)
CollapseHyphens(res) ==
    IF HasDoubleHyphen(res) THEN CollapseHyphens(ReplaceDoubleHyphen(res))
    ELSE res

\* strings.Trim(res, "-")
RECURSIVE TrimLeftHyphen(_)
TrimLeftHyphen(res) ==
    IF res # <<>> /\ Head(res) = "-" THEN TrimLeftHyphen(Tail(res)) ELSE res

RECURSIVE TrimRightHyphen(_)
TrimRightHyphen(res) ==
    IF res # <<>> /\ res[Len(res)] = "-"
    THEN TrimRightHyphen(SubSeq(res, 1, Len(res) - 1))
    ELSE res

\* Mutant of TrimHyphens: only the leading hyphens are trimmed.
TrimHyphensLeftOnly(res) == TrimLeftHyphen(res)

TrimHyphens(res) == TrimRightHyphen(TrimLeftHyphen(res))

\* prev := rune(s[i-1]): the byte before rune k of s, read as a code point.
\* It is the last byte of the encoding of rune k-1.
PrevByte(s, k) == LET enc == UTF8(s[k - 1]) IN enc[Len(enc)]

\* Mutant of KebabWrite: a space is written as an underscore.
KebabWriteSpaceAsUnderscore(s, k) ==
    LET r == s[k] IN
    IF IsUpper(r)
    THEN (IF k > 1
             /\ ~IsUpperCode(PrevByte(s, k))
             /\ PrevByte(s, k) # 45
             /\ PrevByte(s, k) # 95
          THEN <<"-">> ELSE <<>>) \o <<ToLower(r)>>
    ELSE IF r = "_" THEN <<"-">>
    ELSE IF r = " " THEN <<"_">>
    ELSE <<r>>

\* What the loop of toKebabCase writes for rune k of s.
KebabWrite(s, k) ==
    LET r == s[k] IN
    IF IsUpper(r)
    THEN (IF k > 1
             /\ ~IsUpperCode(PrevByte(s, k))
             /\ PrevByte(s, k) # 45
             /\ PrevByte(s, k) # 95
          THEN <<"-">> ELSE <<>>) \o <<ToLower(r)>>
    ELSE IF r = "_" \/ r = " " THEN <<"-">>
    ELSE <<r>>

toKebabCase(s) ==
    IF s = <<>> THEN s
    ELSE TrimHyphens(CollapseHyphens(
             Flatten([k \in 1..Len(s) |-> KebabWrite(s, k)])))

\* The verb table of DeriveCommandName, in its order.
VerbPrefixes ==
    << <<"l","i","s","t">>,
       <<"g","e","t">>,
       <<"c","r","e","a","t","e">>,
       <<"u","p","d","a","t","e">>,
       <<"d","e","l","e","t","e">>,
       <<"s","t","a","r","t">>,
       <<"s","t","o","p">>,
       <<"c","a","n","c","e","l">>,
       <<"p","i","n","g">>,
       <<"s","u","b","s","c","r","i","b","e">> >>

\* Mutant of MatchesVerb: the verb matches as a bare prefix, with no boundary.
MatchesVerbNoBoundary(verb, operationID) == HasPrefix(operationID, verb)

\* regexp `^verb[A-Z]` matched against operationID.
MatchesVerb(verb, operationID) ==
    /\ HasPrefix(operationID, verb)
    /\ Len(operationID) > Len(verb)
    /\ IsAsciiUpper(operationID[Len(verb) + 1])

RECURSIVE FirstVerbMatch(_, _)
FirstVerbMatch(operationID, i) ==
    IF i > Len(VerbPrefixes) THEN 0
    ELSE IF MatchesVerb(VerbPrefixes[i], operationID) THEN i
    ELSE FirstVerbMatch(operationID, i + 1)

DeriveCommandName(operationID) ==
    LET i == FirstVerbMatch(operationID, 1) IN
    IF i # 0 THEN VerbPrefixes[i] ELSE toKebabCase(operationID)

DefaultGroup == <<"d","e","f","a","u","l","t">>

DeriveGroupName(tag) ==
    IF tag = <<>> THEN DefaultGroup ELSE toKebabCase(tag)

\* A prefix test that does not fold the case of the name.
HasXPrefixUpperOnly(name) ==
    Len(name) >= 2 /\ name[1] = "X" /\ name[2] = "-"

\* strings.HasPrefix(strings.ToUpper(name), "X-")
HasXPrefix(name) ==
    Len(name) >= 2 /\ name[1] \in {"X", "x"} /\ name[2] = "-"

DeriveFlagName(paramName, in) ==
    LET name == IF in = "header" /\ HasXPrefix(paramName)
                THEN SubSeq(paramName, 3, Len(paramName))
                ELSE paramName
    IN  toKebabCase(name)

\* strings.Fields: the maximal runs of non-space runes.
RECURSIVE Fields(_)
Fields(name) ==
    IF name = <<>> THEN <<>>
    ELSE IF IsSpace(Head(name)) THEN Fields(Tail(name))
    ELSE LET n == IF \E i \in 1..Len(name) : IsSpace(name[i])
                  THEN (CHOOSE i \in 1..Len(name) :
                           /\ IsSpace(name[i])
                           /\ \A j \in 1..(i - 1) : ~IsSpace(name[j])) - 1
                  ELSE Len(name)
         IN  <<SubSeq(name, 1, n)>> \o Fields(SubSeq(name, n + 1, Len(name)))

ParseCommandPath(name) ==
    LET parts == Fields(name) IN [i \in 1..Len(parts) |-> toKebabCase(parts[i])]

-----------------------------------------------------------------------------
(* The naming deriver applied to bounded identifiers: one derivation per     *)
(* identifier, and toKebabCase applied again to its own result.            *)

MaxNameLen == 3

NameAlphabet == {"A", "b", "1", "-", "_", " ", "U+00C9", "U+2102"}

NamePrefixes ==
    Range(VerbPrefixes) \cup {<<>>, <<"X","-">>, <<"x","-">>, <<"X">>}

NameInputs ==
    {p \o s : p \in NamePrefixes, s \in StringsUpTo(NameAlphabet, MaxNameLen)}

Locations == {"path", "query", "header"}

NoCall == [fn |-> "none", arg |-> <<>>, in |-> "", ret |-> <<>>]

NoPlan == [status |-> "none"]
NoFiles == [status |-> "none"]
\* A nil []byte, as against an empty one.
NilBody == [isNil |-> TRUE, bytes |-> <<>>]

\* NewRequest(method, path): the three maps are made empty, Body stays nil.
NewRequest(method, path) ==
    [Method |-> method, Path |-> path, PathParams |-> <<>>,
     QueryParams |-> <<>>, Headers |-> <<>>, Body |-> NilBody]

NoRequest == NewRequest(<<>>, <<>>)
NotBuilt == [status |-> "none"]

\* New(baseURL, timeout): no headers yet.
New(baseURL) == [BaseURL |-> baseURL, Headers |-> <<>>]

NotSent == [status |-> "none"]
NoResponse == [status |-> "none"]
\* An error value is its message, in pieces: the fixed text of a format
\* string is one piece, formatted text is a piece per rune.
NoReturn == [returned |-> FALSE, nil |-> TRUE, msg |-> <<>>]
ReturnNil == [returned |-> TRUE, nil |-> TRUE, msg |-> <<>>]
ReturnError(msg) == [returned |-> TRUE, nil |-> FALSE, msg |-> msg]

NoSSE == [status |-> "none"]
NoConfig == [status |-> "none"]
NoGoroutines == [status |-> "none"]

\* Nothing of the runtime package besides the Runtime and its response.
OthersAtRest ==
    /\ sse = NoSSE
    /\ cfg = NoConfig
    /\ conc = NoGoroutines

\* No Runtime in use: nothing sent, received, written or returned.
RuntimeAtRest ==
    /\ OthersAtRest
    /\ rt = New(<<>>)
    /\ sent = NotSent
    /\ resp = NoResponse
    /\ out = <<>>
    /\ stderr = <<>>
    /\ err = NoReturn

NamingIdle ==
    UNCHANGED <<input, spec, plan, files, req, built,
                rt, sent, resp, out, stderr, err, sse, cfg, conc>>

InitNaming ==
    /\ input \in NameInputs
    /\ call = NoCall
    /\ prev = NoCall
    /\ spec = [Operations |-> <<>>]
    /\ plan = NoPlan
    /\ files = NoFiles
    /\ req = NoRequest
    /\ built = NotBuilt
    /\ RuntimeAtRest

ToKebabCaseCall ==
    /\ call = NoCall
    /\ call' = [fn |-> "toKebabCase", arg |-> input, in |-> "",
                ret |-> toKebabCase(input)]
    /\ prev' = NoCall
    /\ NamingIdle

\* toKebabCase applied to its own result.
ToKebabCaseAgain ==
    /\ call.fn = "toKebabCase"
    /\ call' = [fn |-> "toKebabCase", arg |-> call.ret, in |-> "",
                ret |-> toKebabCase(call.ret)]
    /\ prev' = call
    /\ NamingIdle

DeriveCommandNameCall ==
    /\ call = NoCall
    /\ call' = [fn |-> "DeriveCommandName", arg |-> input, in |-> "",
                ret |-> DeriveCommandName(input)]
    /\ prev' = NoCall
    /\ NamingIdle

DeriveGroupNameCall ==
    /\ call = NoCall
    /\ call' = [fn |-> "DeriveGroupName", arg |-> input, in |-> "",
                ret |-> DeriveGroupName(input)]
    /\ prev' = NoCall
    /\ NamingIdle

DeriveFlagNameCall ==
    /\ call = NoCall
    /\ \E in \in Locations :
          call' = [fn |-> "DeriveFlagName", arg |-> input, in |-> in,
                   ret |-> DeriveFlagName(input, in)]
    /\ prev' = NoCall
    /\ NamingIdle

ParseCommandPathCall ==
    /\ call = NoCall
    /\ call' = [fn |-> "ParseCommandPath", arg |-> input, in |-> "",
                ret |-> ParseCommandPath(input)]
    /\ prev' = NoCall
    /\ NamingIdle

NextNaming ==
    \/ ToKebabCaseCall
    \/ ToKebabCaseAgain
    \/ DeriveCommandNameCall
    \/ DeriveGroupNameCall
    \/ DeriveFlagNameCall
    \/ ParseCommandPathCall

SpecNaming == InitNaming /\ [][NextNaming]_vars

-----------------------------------------------------------------------------
(* Properties of the naming deriver *)

\* The verbs that operationID starts with, followed by a rune satisfying Follows.
VerbsFollowedBy(id, Follows(_)) ==
    {v \in Range(VerbPrefixes) :
        /\ Len(id) > Len(v)
        /\ SubSeq(id, 1, Len(v)) = v
        /\ Follows(id[Len(v) + 1])}

\* C8 (as stated): DeriveCommandName returns the bare verb for every
\* operationId that starts with a known verb immediately followed by an
\* uppercase letter, and toKebabCase(operationId) for every other operationId.
C8_VerbThenUppercase ==
    call.fn = "DeriveCommandName" =>
        LET vs == VerbsFollowedBy(call.arg, IsUpper) IN
        IF vs # {} THEN call.ret \in vs ELSE call.ret = toKebabCase(call.arg)

\* C8 (amended): DeriveCommandName returns the bare verb for every operationId
\* that starts with a known verb immediately followed by an ASCII uppercase
\* letter A-Z, and toKebabCase(operationId) for every other operationId, a verb
\* followed by a non-ASCII uppercase letter included.
C8_VerbThenAsciiUppercase ==
    call.fn = "DeriveCommandName" =>
        LET vs == VerbsFollowedBy(call.arg, IsAsciiUpper) IN
        IF vs # {} THEN call.ret \in vs ELSE call.ret = toKebabCase(call.arg)

C8_Witness ==
    /\ call.fn = "DeriveCommandName"
    /\ VerbsFollowedBy(call.arg, IsAsciiUpper) # {}
    /\ Len(call.arg) > Len(call.ret) + 1
    /\ call.ret # toKebabCase(call.arg)

\* Every uppercase letter of s has a lowercase form.
UppercaseHasLowerForm(s) ==
    \A i \in 1..Len(s) : IsUpper(s[i]) => ToLower(s[i]) # s[i]

\* C9 (as stated): toKebabCase is idempotent: for every input string s,
\* toKebabCase(toKebabCase(s)) equals toKebabCase(s).
C9_KebabIdempotent ==
    (call.fn = "toKebabCase" /\ prev.fn = "toKebabCase") => call.ret = prev.ret

\* C9 (amended): toKebabCase(toKebabCase(s)) equals toKebabCase(s) for every
\* input string s in which every uppercase letter has a lowercase form (every
\* ASCII string in particular).
C9_KebabIdempotentOnCasedInput ==
    (/\ call.fn = "toKebabCase"
     /\ prev.fn = "toKebabCase"
     /\ UppercaseHasLowerForm(prev.arg)) => call.ret = prev.ret

C9_Witness ==
    /\ call.fn = "toKebabCase"
    /\ prev.fn = "toKebabCase"
    /\ call.arg = prev.ret
    /\ UppercaseHasLowerForm(prev.arg)
    /\ \E i \in 1..Len(prev.arg) : IsUpper(prev.arg[i])
    /\ \E i \in 1..Len(prev.arg) : prev.arg[i] \in {"_", " "}
    /\ prev.ret # prev.arg
    /\ call.ret = prev.ret

\* s is hyphen-separated: no underscore, no space, no two consecutive hyphens,
\* no hyphen at either end.
HyphenSeparated(s) ==
    /\ \A i \in 1..Len(s) : s[i] \notin {"_", " "}
    /\ \A i \in 1..(Len(s) - 1) : ~(s[i] = "-" /\ s[i + 1] = "-")
    /\ s # <<>> => (s[1] # "-" /\ s[Len(s)] # "-")

\* The names the last call derived through toKebabCase.
DerivedNames ==
    IF call.fn \in {"toKebabCase", "DeriveGroupName", "DeriveCommandName"}
    THEN {call.ret}
    ELSE IF call.fn = "ParseCommandPath" THEN Range(call.ret)
    ELSE {}

\* C10 (as stated): the result of toKebabCase, and so every group name and
\* every derived command-path segment, contains no uppercase letter, no
\* underscore, no space, no two consecutive hyphens, and neither starts nor
\* ends with a hyphen.
C10_LowerKebab ==
    \A s \in DerivedNames :
        /\ HyphenSeparated(s)
        /\ \A i \in 1..Len(s) : ~IsUpper(s[i])

\* C10 (amended): the result of toKebabCase, and so every group name and every
\* derived command-path segment, contains no uppercase letter that has a
\* lowercase form (an uppercase letter without one is kept as it is), no
\* underscore, no space, no two consecutive hyphens, and neither starts nor
\* ends with a hyphen.
C10_LowerKebabOfCasedLetters ==
    \A s \in DerivedNames :
        /\ HyphenSeparated(s)
        /\ \A i \in 1..Len(s) : ~(IsUpper(s[i]) /\ ToLower(s[i]) # s[i])

C10_Witness ==
    /\ call.fn = "toKebabCase"
    /\ \E i \in 1..Len(call.arg) : IsUpper(call.arg[i]) /\ ToLower(call.arg[i]) # call.arg[i]
    /\ call.arg[Len(call.arg)] = "_"
    /\ Len(call.ret) >= 2
    /\ HyphenSeparated(call.ret)


\* name starts with "X-" or "x-".
StartsWithXHyphen(name) ==
    Len(name) >= 2 /\ name[1] \in {"X", "x"} /\ name[2] = "-"

\* C11: DeriveFlagName strips the two-character prefix before kebab-casing
\* exactly when the location is header and the name starts with X- in any
\* letter case: DeriveFlagName("X-" + r, header) is toKebabCase(r), and for
\* every other name and for path and query parameters the result is
\* toKebabCase of the whole name.
C11_FlagNameStripsHeaderPrefix ==
    call.fn = "DeriveFlagName" =>
        IF call.in = "header" /\ StartsWithXHyphen(call.arg)
        THEN call.ret = toKebabCase(SubSeq(call.arg, 3, Len(call.arg)))
        ELSE call.ret = toKebabCase(call.arg)

\* A header name with a lower-case x- prefix was stripped, and kebab-casing
\* the whole name would have given another flag name.
C11_Witness ==
    /\ call.fn = "DeriveFlagName"
    /\ call.in = "header"
    /\ HasPrefix(call.arg, <<"x", "-">>)
    /\ \E i \in 1..Len(call.arg) : IsAsciiUpper(call.arg[i])
    /\ call.ret # <<>>
    /\ call.ret # toKebabCase(call.arg)

-----------------------------------------------------------------------------
(* package plan: the plan builder *)
(*                                                                         *)
(* An Operation is [Tag, Method, Path, OperationID, Params, Cli]; a Param  *)
(* is [Name, In, Cli].  A nil override pointer is a record whose field nil *)
(* is TRUE; the tri-state *bool Positional is "nil", "true" or "false".    *)
(* The fields Build only copies (summary, description, type, format,       *)
(* required, default, min, max, body and event-stream flags) are left out. *)

NilCli == [nil |-> TRUE, Name |-> <<>>, Group |-> <<>>, Hidden |-> FALSE,
           Aliases |-> <<>>]

NilParamCli == [nil |-> TRUE, Flag |-> <<>>, Shorthand |-> <<>>, Env |-> <<>>,
                ConfigKey |-> <<>>, Positional |-> "nil"]

\* A buildParamPlan that kebab-cases the overrides like a derived name.
buildParamPlanKebabOverrides(p) ==
    [Name      |-> p.Name,
     In        |-> p.In,
     FlagName  |-> IF ~p.Cli.nil /\ p.Cli.Flag # <<>>
                   THEN toKebabCase(p.Cli.Flag)
                   ELSE DeriveFlagName(p.Name, p.In),
     Shorthand |-> IF ~p.Cli.nil THEN toKebabCase(p.Cli.Shorthand) ELSE <<>>,
     EnvVar    |-> IF ~p.Cli.nil THEN toKebabCase(p.Cli.Env) ELSE <<>>,
     ConfigKey |-> IF ~p.Cli.nil THEN toKebabCase(p.Cli.ConfigKey) ELSE <<>>]

buildParamPlan(p) ==
    [Name      |-> p.Name,
     In        |-> p.In,
     FlagName  |-> IF ~p.Cli.nil /\ p.Cli.Flag # <<>>
                   THEN p.Cli.Flag
                   ELSE DeriveFlagName(p.Name, p.In),
     Shorthand |-> IF ~p.Cli.nil THEN p.Cli.Shorthand ELSE <<>>,
     EnvVar    |-> IF ~p.Cli.nil THEN p.Cli.Env ELSE <<>>,
     ConfigKey |-> IF ~p.Cli.nil THEN p.Cli.ConfigKey ELSE <<>>]

\* Mutant of IsPathParam: the location is not looked at.
IsPathParamAnyLocation(p) == TRUE

\* p.In == "path"
IsPathParam(p) == p.In = "path"

\* isPositional of buildOpPlan: true unless the override sets it.
isPositional(p) ==
    IF ~p.Cli.nil /\ p.Cli.Positional # "nil"
    THEN p.Cli.Positional = "true"
    ELSE TRUE

IsForcedFlag(p) == ~isPositional(p)

NotPathParam(p) == ~IsPathParam(p)

PlansOf(params) == [i \in 1..Len(params) |-> buildParamPlan(params[i])]

\* A command path that keeps the group in front of the full-path override.
ResolveCommandPathUnderGroup(groupName, op) ==
    LET base == IF ~op.Cli.nil /\ op.Cli.Name # <<>>
                THEN <<DeriveGroupName(groupName)>>
                        \o ParseCommandPath(op.Cli.Name)
                ELSE <<DeriveGroupName(groupName),
                       DeriveCommandName(op.OperationID)>>
    IN  IF ~op.Cli.nil /\ op.Cli.Group # <<>>
        THEN [panic |-> FALSE,
              path  |-> [base EXCEPT ![1] = DeriveGroupName(op.Cli.Group)]]
        ELSE [panic |-> FALSE, path |-> base]

\* The command path of an operation: [panic, path].  Assigning the group
\* override to CommandPath[0] of an empty path is an index out of range.
ResolveCommandPath(groupName, op) ==
    LET base == IF ~op.Cli.nil /\ op.Cli.Name # <<>>
                THEN ParseCommandPath(op.Cli.Name)
                ELSE <<DeriveGroupName(groupName),
                       DeriveCommandName(op.OperationID)>>
    IN  IF ~op.Cli.nil /\ op.Cli.Group # <<>>
        THEN IF base = <<>>
             THEN [panic |-> TRUE, path |-> <<>>]
             ELSE [panic |-> FALSE,
                   path  |-> [base EXCEPT ![1] = DeriveGroupName(op.Cli.Group)]]
        ELSE [panic |-> FALSE, path |-> base]

\* A buildOpPlan that appends every flag in one pass over the parameters.
buildOpPlanOnePass(groupName, op) ==
    [CommandPath |-> ResolveCommandPath(groupName, op).path,
     Method      |-> op.Method,
     Path        |-> op.Path,
     OperationID |-> op.OperationID,
     Hidden      |-> IF ~op.Cli.nil THEN op.Cli.Hidden ELSE FALSE,
     Aliases     |-> IF ~op.Cli.nil THEN op.Cli.Aliases ELSE <<>>,
     Positionals |-> PlansOf(SelectSeq(SelectSeq(op.Params, IsPathParam),
                                       isPositional)),
     Flags       |-> PlansOf(SelectSeq(op.Params,
                        LAMBDA p : NotPathParam(p) \/ IsForcedFlag(p)))]

buildOpPlan(groupName, op) ==
    LET pathParams  == SelectSeq(op.Params, IsPathParam)
        otherParams == SelectSeq(op.Params, NotPathParam)
    IN  [CommandPath |-> ResolveCommandPath(groupName, op).path,
         Method      |-> op.Method,
         Path        |-> op.Path,
         OperationID |-> op.OperationID,
         Hidden      |-> IF ~op.Cli.nil THEN op.Cli.Hidden ELSE FALSE,
         Aliases     |-> IF ~op.Cli.nil THEN op.Cli.Aliases ELSE <<>>,
         Positionals |-> PlansOf(SelectSeq(pathParams, isPositional)),
         Flags       |-> PlansOf(SelectSeq(pathParams, IsForcedFlag))
                            \o PlansOf(otherParams)]

buildGroupPlan(name, ops) ==
    [Name       |-> DeriveGroupName(name),
     Operations |-> [i \in 1..Len(ops) |-> buildOpPlan(name, ops[i])]]

\* The key of an operation in the groups map of Build.
GroupKey(op) == IF op.Tag = <<>> THEN DefaultGroup ELSE op.Tag

\* groups[key]: the operations of a key, in input order.
GroupOps(ops, key) == SelectSeq(ops, LAMBDA op : GroupKey(op) = key)

\* sort.Strings on the (distinct) keys of a map.
RECURSIVE SortStrings(_)
SortStrings(S) ==
    IF S = {} THEN <<>>
    ELSE LET least == CHOOSE x \in S : \A y \in S \ {x} : StrLess(x, y)
         IN  <<least>> \o SortStrings(S \ {least})

\* Build: [status |-> "ok", Groups |-> ...], or [status |-> "panic"] when
\* buildOpPlan panics on one of the operations.
Build(s) ==
    LET ops        == s.Operations
        groupNames == SortStrings({GroupKey(ops[i]) : i \in 1..Len(ops)})
    IN  IF \E i \in 1..Len(ops) :
              ResolveCommandPath(GroupKey(ops[i]), ops[i]).panic
        THEN [status |-> "panic"]
        ELSE [status |-> "ok",
              Groups |-> [g \in 1..Len(groupNames) |->
                            buildGroupPlan(groupNames[g],
                                           GroupOps(ops, groupNames[g]))]]

-----------------------------------------------------------------------------
(* package gen: the files of the command groups *)

GoSuffix == <<".","g","o">>

\* fileName of generateOperation.  Indexing CommandPath[len-1] of an empty
\* command path is an index out of range.
OperationFile(group, op) ==
    group.Name \o <<"_">> \o op.CommandPath[Len(op.CommandPath)] \o GoSuffix

\* The writes of generateCommands, in order: [name, op], op the OperationID
\* the file is generated from ("" for a group file).
GroupWrites(group) ==
    <<[name |-> group.Name \o GoSuffix, op |-> <<>>]>>
    \o [i \in 1..Len(group.Operations) |->
          [name |-> OperationFile(group, group.Operations[i]),
           op   |-> group.Operations[i].OperationID]]

generateCommands(p) ==
    IF \E g \in 1..Len(p.Groups) : \E i \in 1..Len(p.Groups[g].Operations) :
          p.Groups[g].Operations[i].CommandPath = <<>>
    THEN [status |-> "panic"]
    ELSE [status |-> "ok",
          writes |-> Flatten([g \in 1..Len(p.Groups) |-> GroupWrites(p.Groups[g])])]

-----------------------------------------------------------------------------
(* The {name} placeholders of a path template *)

\* The least index at or after pos where s holds c, or 0.
RECURSIVE IndexFrom(_, _, _)
IndexFrom(s, c, pos) ==
    IF pos > Len(s) THEN 0
    ELSE IF s[pos] = c THEN pos
    ELSE IndexFrom(s, c, pos + 1)

\* pathParamRegex.FindAllStringSubmatch(s, -1) for `\{([^}]+)\}`: the
\* leftmost non-overlapping matches from pos on, each [name, at].  A match
\* at an opening brace runs to the first closing brace after it and needs at
\* least one rune in between.
RECURSIVE FindPlaceholders(_, _)
FindPlaceholders(s, pos) ==
    LET open  == IndexFrom(s, "{", pos)
        close == IF open = 0 THEN 0 ELSE IndexFrom(s, "}", open + 1)
    IN  IF open = 0 \/ close = 0 THEN <<>>
        ELSE IF close = open + 1 THEN FindPlaceholders(s, open + 1)
        ELSE <<[name |-> SubSeq(s, open + 1, close - 1), at |-> open]>>
             \o FindPlaceholders(s, close + 1)

PlaceholderNames(s) ==
    LET ms == FindPlaceholders(s, 1) IN [i \in 1..Len(ms) |-> ms[i].name]

-----------------------------------------------------------------------------
(* The plan builder applied to bounded specs *)

MaxOps == 2
MaxParams == 2

PlanTags == {<<>>, <<"a">>, <<"B">>, <<"a","_","b">>}

PlanOperationIDs ==
    {<<"l","i","s","t","A">>, <<"l","i","s","t","B">>, <<"g","e","t","A">>}

PlanClis ==
    {NilCli,
     [NilCli EXCEPT !.nil = FALSE, !.Name = <<"x"," ","y">>],
     [NilCli EXCEPT !.nil = FALSE, !.Name = <<" ">>],
     [NilCli EXCEPT !.nil = FALSE, !.Group = <<"g">>, !.Hidden = TRUE,
                    !.Aliases = << <<"l","s">> >>],
     [NilCli EXCEPT !.nil = FALSE, !.Name = <<" ">>, !.Group = <<"g">>],
     [NilCli EXCEPT !.nil = FALSE, !.Name = <<"x">>, !.Group = <<"g">>]}

PlanPaths ==
    {<<"/","x">>,
     <<"/","{","a","}">>,
     <<"/","{","b","}">>,
     <<"/","{","a","}","/","{","b","}">>,
     <<"/","{","b","}","/","{","a","}">>}

PlanParamClis ==
    {NilParamCli,
     [NilParamCli EXCEPT !.nil = FALSE, !.Positional = "false"],
     [NilParamCli EXCEPT !.nil = FALSE, !.Positional = "true"],
     [NilParamCli EXCEPT !.nil = FALSE, !.Flag = <<"o","r","g">>,
                         !.Positional = "false"],
     [NilParamCli EXCEPT !.nil = FALSE, !.Flag = <<"O","r","g">>,
                         !.Shorthand = <<"o">>, !.Env = <<"O","R","G">>,
                         !.ConfigKey = <<"o","_","k">>]}

PlanParams ==
    [Name : {<<"a">>, <<"b">>}, In : Locations, Cli : PlanParamClis]

\* The parameter lists of at most n parameters, no two of one name and
\* location (a validated operation declares each parameter once).
RECURSIVE ParamListsUpTo(_)
ParamListsUpTo(n) ==
    IF n = 0 THEN {<<>>}
    ELSE LET shorter == ParamListsUpTo(n - 1)
         IN  shorter \cup
             {Append(l, q) : l \in {x \in shorter : Len(x) = n - 1},
                             q \in PlanParams}

DistinctParams(l) ==
    \A i, j \in 1..Len(l) :
        (l[i].Name = l[j].Name /\ l[i].In = l[j].In) => i = j

PathParamNames(params) ==
    {params[i].Name : i \in {k \in 1..Len(params) : params[k].In = "path"}}

\* One operation with parameters: its path parameters are exactly the
\* placeholders of its path template, as a validated document has them.
ParamOperations ==
    {[Tag |-> <<"a">>, Method |-> "GET", Path |-> path,
      OperationID |-> <<"g","e","t","A">>, Params |-> l, Cli |-> NilCli] :
        path \in PlanPaths,
        l \in {x \in ParamListsUpTo(MaxParams) : DistinctParams(x)}}

\* The endpoints of a document, in the order normalize extracts them: paths
\* sorted, and the methods of a path in the order GET, POST, PUT.
PlanEndpoints ==
    <<[Method |-> "GET",  Path |-> <<"/","x">>],
      [Method |-> "POST", Path |-> <<"/","x">>],
      [Method |-> "PUT",  Path |-> <<"/","x">>],
      [Method |-> "GET",  Path |-> <<"/","y">>]>>

\* The operation of the n-th endpoint: no parameters, any tag, operationId
\* and override.
GroupOperations(n) ==
    [Tag : PlanTags, Method : {PlanEndpoints[n].Method},
     Path : {PlanEndpoints[n].Path}, OperationID : PlanOperationIDs,
     Params : {<<>>}, Cli : PlanClis]

\* The operation lists of the first n endpoints or fewer.
RECURSIVE OperationListsUpTo(_)
OperationListsUpTo(n) ==
    IF n = 0 THEN {<<>>}
    ELSE LET shorter == OperationListsUpTo(n - 1)
         IN  shorter \cup
             {Append(l, op) : l \in {x \in shorter : Len(x) = n - 1},
                              op \in GroupOperations(n)}

\* A validated document gives each operation its own operationId.
DistinctOperationIDs(l) ==
    \A i, j \in 1..Len(l) : l[i].OperationID = l[j].OperationID => i = j

PlanIdle ==
    UNCHANGED <<input, call, prev, spec, req, built,
                rt, sent, resp, out, stderr, err, sse, cfg, conc>>

InitPlan ==
    /\ \/ \E l \in OperationListsUpTo(MaxOps) :
             DistinctOperationIDs(l) /\ spec = [Operations |-> l]
       \/ \E op \in ParamOperations :
             /\ PathParamNames(op.Params) = Range(PlaceholderNames(op.Path))
             /\ spec = [Operations |-> <<op>>]
    /\ plan = NoPlan
    /\ files = NoFiles
    /\ input = <<>>
    /\ call = NoCall
    /\ prev = NoCall
    /\ req = NoRequest
    /\ built = NotBuilt
    /\ RuntimeAtRest

\* plan.Build(s, appName, moduleName)
BuildPlan ==
    /\ plan = NoPlan
    /\ plan' = Build(spec)
    /\ files' = files
    /\ PlanIdle

\* Generator.generateCommands on the plan Build returned
GenerateCommands ==
    /\ plan.status = "ok"
    /\ files = NoFiles
    /\ files' = generateCommands(plan)
    /\ plan' = plan
    /\ PlanIdle

NextPlan == BuildPlan \/ GenerateCommands

SpecPlan == InitPlan /\ [][NextPlan]_vars

-----------------------------------------------------------------------------
(* Properties of the plan builder *)

\* The places <<g, i>> of the OpPlans of the plan.
OpPlanPlaces ==
    IF plan.status = "ok"
    THEN UNION {{<<g, i>> : i \in 1..Len(plan.Groups[g].Operations)} :
                   g \in 1..Len(plan.Groups)}
    ELSE {}

OpPlanAt(pl) == plan.Groups[pl[1]].Operations[pl[2]]

\* The places of the OpPlans built from operation op.
PlacesOf(op) ==
    {pl \in OpPlanPlaces : OpPlanAt(pl).OperationID = op.OperationID}

SpecOps == Range(spec.Operations)

\* The parameter plans hold one for parameter p.
HoldsParam(paramPlans, p) ==
    \E k \in 1..Len(paramPlans) :
        paramPlans[k].Name = p.Name /\ paramPlans[k].In = p.In

ForcedToFlag(p) == ~p.Cli.nil /\ p.Cli.Positional = "false"

\* C2: in every Plan produced by Build, a parameter is in Positionals if and
\* only if its location is path and its positional override is not explicitly
\* false; a query or header parameter is never a positional, and a path
\* parameter with positional=false is emitted as a flag whatever its flag-name
\* override.
C2_PositionalIffPathNotForced ==
    plan.status = "ok" =>
        \A op \in SpecOps :
            /\ PlacesOf(op) # {}
            /\ \A pl \in PlacesOf(op) : \A p \in Range(op.Params) :
                  /\ HoldsParam(OpPlanAt(pl).Positionals, p)
                        <=> (p.In = "path" /\ ~ForcedToFlag(p))
                  /\ (p.In = "path" /\ ForcedToFlag(p))
                        => HoldsParam(OpPlanAt(pl).Flags, p)

C2_Witness ==
    /\ plan.status = "ok"
    /\ \E op \in SpecOps : \E p, q \in Range(op.Params) :
          /\ p.In = "path" /\ ForcedToFlag(p) /\ p.Cli.Flag # <<>>
          /\ q.In # "path" /\ ~q.Cli.nil /\ q.Cli.Positional = "true"
          /\ \A pl \in PlacesOf(op) :
                /\ HoldsParam(OpPlanAt(pl).Flags, p)
                /\ HoldsParam(OpPlanAt(pl).Flags, q)
                /\ OpPlanAt(pl).Positionals = <<>>

\* Where the placeholder {name} first occurs in a path template.
PlaceholderAt(path, name) ==
    LET ms == FindPlaceholders(path, 1)
        k  == CHOOSE i \in 1..Len(ms) :
                 ms[i].name = name /\ \A j \in 1..(i - 1) : ms[j].name # name
    IN  ms[k].at

\* C3: the Positionals of every OpPlan are ordered by the order in which their
\* {name} placeholders occur in the operation's path template, for every order
\* in which the parameters are declared.
C3_PositionalsInTemplateOrder ==
    \A pl \in OpPlanPlaces :
        LET o == OpPlanAt(pl) IN
        \A i, j \in 1..Len(o.Positionals) :
            i < j => PlaceholderAt(o.Path, o.Positionals[i].Name)
                        < PlaceholderAt(o.Path, o.Positionals[j].Name)

\* C4: in every Plan produced by Build, the GroupPlan names of Plan.Groups are
\* in ascending lexicographic order, for every set of input tags.
C4_GroupNamesAscending ==
    plan.status = "ok" =>
        \A g, h \in 1..Len(plan.Groups) :
            g < h => ~StrLess(plan.Groups[h].Name, plan.Groups[g].Name)

\* C5: Build never fails, and every OpPlan of the Plan it produces has a
\* command path of at least one segment, for every value of the full-path and
\* group overrides.
C5_CommandPathNonEmpty ==
    /\ plan.status # "panic"
    /\ \A pl \in OpPlanPlaces : Len(OpPlanAt(pl).CommandPath) >= 1

\* C6: one command per endpoint: in a Plan produced by Build no two distinct
\* operations have the same command path.
C6_OneCommandPerEndpoint ==
    \A pl, pm \in OpPlanPlaces :
        OpPlanAt(pl).CommandPath = OpPlanAt(pm).CommandPath => pl = pm

\* C7: an operation whose override sets group G appears in the Plan under the
\* GroupPlan named DeriveGroupName(G), not under the GroupPlan derived from
\* its tag.
C7_GroupOverrideRegroups ==
    plan.status = "ok" =>
        \A op \in SpecOps :
            (~op.Cli.nil /\ op.Cli.Group # <<>>) =>
                /\ PlacesOf(op) # {}
                /\ \A pl \in PlacesOf(op) :
                      plan.Groups[pl[1]].Name = DeriveGroupName(op.Cli.Group)

\* C12: the Flags of every OpPlan are the path parameters forced to flag, in
\* their input order, followed by all non-path parameters, in their input
\* order; no flag of a non-path parameter precedes a flag of a forced path
\* parameter.
C12_FlagsForcedPathFirst ==
    plan.status = "ok" =>
        \A op \in SpecOps : \A pl \in PlacesOf(op) :
            LET flags == OpPlanAt(pl).Flags
                Declared(f) ==
                    CHOOSE k \in 1..Len(op.Params) :
                        /\ op.Params[k].Name = f.Name
                        /\ op.Params[k].In = f.In
                asFlags ==
                    {k \in 1..Len(op.Params) :
                        \/ op.Params[k].In # "path"
                        \/ ForcedToFlag(op.Params[k])}
            IN  /\ {Declared(flags[i]) : i \in 1..Len(flags)} = asFlags
                /\ Len(flags) = Cardinality(asFlags)
                /\ \A i, j \in 1..Len(flags) :
                      i < j =>
                         \/ flags[i].In = "path" /\ flags[j].In # "path"
                         \/ /\ (flags[i].In = "path") <=> (flags[j].In = "path")
                            /\ Declared(flags[i]) < Declared(flags[j])

\* A forced path parameter declared after a query or header parameter is
\* the first flag.
C12_Witness ==
    /\ plan.status = "ok"
    /\ \E op \in SpecOps : \E pl \in PlacesOf(op) :
          /\ Len(op.Params) = 2
          /\ op.Params[1].In # "path"
          /\ op.Params[2].In = "path"
          /\ Len(OpPlanAt(pl).Flags) = 2
          /\ OpPlanAt(pl).Flags[1].Name = op.Params[2].Name
          /\ OpPlanAt(pl).Flags[1].In = "path"

HasNameOverride(op) == ~op.Cli.nil /\ op.Cli.Name # <<>>
HasGroupOverride(op) == ~op.Cli.nil /\ op.Cli.Group # <<>>

DerivedPair(op) ==
    <<DeriveGroupName(op.Tag), DeriveCommandName(op.OperationID)>>

\* C13: with a non-empty full-path override and no group override the command
\* path is exactly ParseCommandPath(override), whatever the tag and the
\* operationId; with the override absent or empty the command path is
\* [DeriveGroupName(tag), DeriveCommandName(operationId)].
C13_CommandPathFromOverrideOrDerived ==
    plan.status = "ok" =>
        \A op \in SpecOps : \A pl \in PlacesOf(op) :
            /\ (HasNameOverride(op) /\ ~HasGroupOverride(op))
                  => OpPlanAt(pl).CommandPath = ParseCommandPath(op.Cli.Name)
            /\ ~HasNameOverride(op)
                  => OpPlanAt(pl).CommandPath = DerivedPair(op)

\* C13, amended: with a non-empty full-path override and no group override
\* the command path is exactly ParseCommandPath(override), whatever the tag
\* and the operationId; with the full-path override absent or empty and no
\* group override the command path is
\* [DeriveGroupName(tag), DeriveCommandName(operationId)].
C13_CommandPathWithoutGroupOverride ==
    plan.status = "ok" =>
        \A op \in SpecOps : \A pl \in PlacesOf(op) :
            ~HasGroupOverride(op) =>
                IF HasNameOverride(op)
                THEN OpPlanAt(pl).CommandPath = ParseCommandPath(op.Cli.Name)
                ELSE OpPlanAt(pl).CommandPath = DerivedPair(op)

\* A tagged operation with a two-word full-path override and no group
\* override has the two words as its command path.
C13_Witness ==
    /\ plan.status = "ok"
    /\ \E op \in SpecOps : \E pl \in PlacesOf(op) :
          /\ HasNameOverride(op) /\ ~HasGroupOverride(op)
          /\ op.Tag # <<>>
          /\ Len(OpPlanAt(pl).CommandPath) = 2
          /\ OpPlanAt(pl).CommandPath # DerivedPair(op)
          /\ OpPlanAt(pl).CommandPath[1] # DeriveGroupName(op.Tag)

\* The ParamPlans of an OpPlan made for parameter p.
ParamPlansOf(o, p) ==
    {o.Positionals[k] : k \in {i \in 1..Len(o.Positionals) :
         o.Positionals[i].Name = p.Name /\ o.Positionals[i].In = p.In}}
    \cup
    {o.Flags[k] : k \in {i \in 1..Len(o.Flags) :
         o.Flags[i].Name = p.Name /\ o.Flags[i].In = p.In}}

\* C14: the flag name of a ParamPlan is the flag-name override when that is
\* set and DeriveFlagName(name, location) when it is not; its shorthand,
\* environment-variable name and config key are the override's values
\* verbatim, and empty when the parameter has no override block.
C14_ParamOverridesVerbatim ==
    plan.status = "ok" =>
        \A op \in SpecOps : \A pl \in PlacesOf(op) : \A p \in Range(op.Params) :
            /\ ParamPlansOf(OpPlanAt(pl), p) # {}
            /\ \A pp \in ParamPlansOf(OpPlanAt(pl), p) :
                  /\ pp.FlagName = IF ~p.Cli.nil /\ p.Cli.Flag # <<>>
                                   THEN p.Cli.Flag
                                   ELSE DeriveFlagName(p.Name, p.In)
                  /\ pp.Shorthand = IF p.Cli.nil THEN <<>> ELSE p.Cli.Shorthand
                  /\ pp.EnvVar    = IF p.Cli.nil THEN <<>> ELSE p.Cli.Env
                  /\ pp.ConfigKey = IF p.Cli.nil THEN <<>> ELSE p.Cli.ConfigKey

\* A parameter whose flag-name, environment and config-key overrides are
\* not in kebab-case has them as they are in its ParamPlan, next to a
\* parameter with a derived flag name.
C14_Witness ==
    /\ plan.status = "ok"
    /\ \E op \in SpecOps : \E pl \in PlacesOf(op) : \E p, q \in Range(op.Params) :
          /\ ~p.Cli.nil
          /\ p.Cli.Flag # toKebabCase(p.Cli.Flag)
          /\ p.Cli.Env # toKebabCase(p.Cli.Env)
          /\ \E pp \in ParamPlansOf(OpPlanAt(pl), p) :
                pp.FlagName = p.Cli.Flag /\ pp.EnvVar = p.Cli.Env
          /\ q.Cli.nil
          /\ \E pq \in ParamPlansOf(OpPlanAt(pl), q) :
                pq.FlagName = DeriveFlagName(q.Name, q.In) /\ pq.EnvVar = <<>>

-----------------------------------------------------------------------------
(* package runtime: the request builder *)

HexDigits ==
    <<"0","1","2","3","4","5","6","7","8","9","A","B","C","D","E","F">>

\* The %XX escape of every byte of a rune.
PercentEscape(c) ==
    LET bs == UTF8(c)
    IN  Flatten([i \in 1..Len(bs) |->
                   <<"%", HexDigits[(bs[i] \div 16) + 1],
                          HexDigits[(bs[i] % 16) + 1]>>])

IsAlphanumeric(c) ==
    c \in Range(LowerLetters) \cup Range(UpperLetters) \cup Range(Digits)

\* net/url shouldEscape for the modes Build reaches: a path segment
\* (url.PathEscape), a query component (url.Values.Encode) and a host
\* (url.Parse).
shouldEscape(c, mode) ==
    IF IsAlphanumeric(c) \/ c \in {"-", "_", ".", "~"} THEN FALSE
    ELSE IF mode = "host"
         THEN c \notin {"!", "$", "&", "'", "(", ")", "*", "+", ",", ";",
                        "=", ":", "[", "]", "<", ">", "\""}
    ELSE IF mode = "pathSegment"
         THEN c \notin {"$", "&", "+", ":", "=", "@"}
    ELSE TRUE

\* url.PathEscape(value)
PathEscape(value) ==
    Flatten([i \in 1..Len(value) |->
               IF shouldEscape(value[i], "pathSegment")
               THEN PercentEscape(value[i]) ELSE <<value[i]>>])

\* url.QueryEscape(value): a space becomes a plus sign.
QueryEscape(value) ==
    Flatten([i \in 1..Len(value) |->
               IF value[i] = " " THEN <<"+">>
               ELSE IF shouldEscape(value[i], "queryComponent")
               THEN PercentEscape(value[i]) ELSE <<value[i]>>])

\* strings.ReplaceAll(s, old, new) for a non-empty old.
RECURSIVE ReplaceAll(_, _, _)
ReplaceAll(s, old, new) ==
    IF Len(s) < Len(old) THEN s
    ELSE IF HasPrefix(s, old)
         THEN new \o ReplaceAll(SubSeq(s, Len(old) + 1, Len(s)), old, new)
         ELSE <<Head(s)>> \o ReplaceAll(Tail(s), old, new)

\* strings.Join(elems, sep)
RECURSIVE Join(_, _)
Join(elems, sep) ==
    IF elems = <<>> THEN <<>>
    ELSE IF Len(elems) = 1 THEN elems[1]
    ELSE elems[1] \o sep \o Join(Tail(elems), sep)

\* strings.TrimSuffix(s, "/")
TrimSuffixSlash(s) ==
    IF s # <<>> /\ s[Len(s)] = "/" THEN SubSeq(s, 1, Len(s) - 1) ELSE s

\* The orders in which a range loop may visit the keys of a map.
Orders(keys) ==
    {o \in [1..Cardinality(keys) -> keys] : Range(o) = keys}

\* A Build that stops at the first placeholder without a value.
MissingFirstOnly(r) ==
    LET missing == SelectSeq(PlaceholderNames(r.Path),
                             LAMBDA n : n \notin DOMAIN r.PathParams)
    IN  IF missing = <<>> THEN <<>> ELSE <<missing[1]>>

\* The names Build reports missing: the placeholders of the path, in match
\* order, that have no entry in PathParams.
MissingPathParams(r) ==
    SelectSeq(PlaceholderNames(r.Path), LAMBDA n : n \notin DOMAIN r.PathParams)

\* The substitution loop of Build, visiting PathParams in the given order.
RECURSIVE SubstitutePathParams(_, _, _)
SubstitutePathParams(path, params, order) ==
    IF order = <<>> THEN path
    ELSE SubstitutePathParams(
             ReplaceAll(path, <<"{">> \o Head(order) \o <<"}">>,
                        PathEscape(params[Head(order)])),
             params, Tail(order))

\* url.Values.Encode(): key=value pairs, sorted by key, joined by "&".
EncodeQuery(params) ==
    LET keys == SortStrings(DOMAIN params)
    IN  Join([i \in 1..Len(keys) |->
                QueryEscape(keys[i]) \o <<"=">> \o QueryEscape(params[keys[i]])],
             <<"&">>)

\* net/http validMethod: a non-empty token.  The grave accent, a token rune
\* too, is not a rune of the model.
validMethod(method) ==
    /\ method # <<>>
    /\ \A i \in 1..Len(method) :
          \/ IsAlphanumeric(method[i])
          \/ method[i] \in {"!", "#", "$", "%", "&", "'", "*", "+", "-", ".",
                            "^", "_", "|", "~"}

\* The authority of scheme://authority/..., or the empty string for a URL
\* without one.
URLAuthority(u) ==
    LET colon == IndexFrom(u, ":", 1)
        start == colon + 3
        slash == IndexFrom(u, "/", start)
        query == IndexFrom(u, "?", start)
        stop  == IF slash = 0 /\ query = 0 THEN Len(u) + 1
                 ELSE IF slash = 0 THEN query
                 ELSE IF query = 0 THEN slash
                 ELSE IF slash < query THEN slash ELSE query
    IN  IF colon = 0 \/ Len(u) < colon + 2
           \/ u[colon + 1] # "/" \/ u[colon + 2] # "/"
        THEN <<>>
        ELSE SubSeq(u, start, stop - 1)

\* url.Parse rejects a host holding a rune that must be escaped.  The hosts
\* of the model hold no percent sign and no port.
URLParseFails(u) ==
    \E c \in Range(URLAuthority(u)) : shouldEscape(c, "host")

\* http.NewRequestWithContext(ctx, method, url, body): "" or an error cause.
NewRequestError(method, u) ==
    IF ~validMethod(IF method = <<>> THEN <<"G", "E", "T">> ELSE method)
    THEN "invalid method"
    ELSE IF URLParseFails(u) THEN "invalid URL"
    ELSE ""

ToUpperAscii(c) ==
    IF c \in Range(LowerLetters) THEN UpperLetters[IndexIn(LowerLetters, c)]
    ELSE c

ToLowerAscii(c) ==
    IF c \in Range(UpperLetters) THEN LowerLetters[IndexIn(UpperLetters, c)]
    ELSE c

\* textproto.CanonicalMIMEHeaderKey, as http.Header.Set applies it: the
\* first letter and every letter after a hyphen in upper case, the others
\* in lower case; a key that is not a token is left as it is.
CanonicalMIMEHeaderKey(k) ==
    IF \E i \in 1..Len(k) : ~(IsAlphanumeric(k[i]) \/ k[i] \in {"-", "_"})
    THEN k
    ELSE [i \in 1..Len(k) |->
            IF i = 1 \/ k[i - 1] = "-" THEN ToUpperAscii(k[i])
            ELSE ToLowerAscii(k[i])]

\* The header loop of Build, visiting Headers in the given order.
RECURSIVE SetHeaders(_, _, _)
SetHeaders(header, headers, order) ==
    IF order = <<>> THEN header
    ELSE SetHeaders(
             (CanonicalMIMEHeaderKey(Head(order)) :> headers[Head(order)])
                 @@ header,
             headers, Tail(order))

ContentType == <<"C","o","n","t","e","n","t","-","T","y","p","e">>
ApplicationJSON ==
    <<"a","p","p","l","i","c","a","t","i","o","n","/","j","s","o","n">>

\* A Build that sets the JSON content type on every request.
SetContentTypeAlways(r, header) ==
    (ContentType :> ApplicationJSON) @@ header

\* The last step of Build: the JSON content type, for a request with a body.
SetContentType(r, header) ==
    IF r.Body.isNil THEN header
    ELSE (ContentType :> ApplicationJSON) @@ header

\* Request.Build(ctx, baseURL), the two map loops run in the given orders:
\* [status |-> "ok"] with the http.Request, or [status |-> "error"].
RequestBuild(r, baseURL, pathOrder, headerOrder) ==
    LET missing == MissingPathParams(r)
        path    == SubstitutePathParams(r.Path, r.PathParams, pathOrder)
        joined  == TrimSuffixSlash(baseURL) \o path
        fullURL == IF DOMAIN r.QueryParams # {}
                   THEN joined \o <<"?">> \o EncodeQuery(r.QueryParams)
                   ELSE joined
        cause   == NewRequestError(r.Method, fullURL)
        header  == SetContentType(r, SetHeaders(<<>>, r.Headers, headerOrder))
    IN  IF missing # <<>>
        THEN [status |-> "error",
              prefix |-> "missing required path parameter(s): ",
              names  |-> Join(missing, <<",", " ">>)]
        ELSE IF cause # ""
        THEN [status |-> "error", prefix |-> "failed to create request: ",
              cause  |-> cause]
        ELSE [status |-> "ok",
              Method |-> IF r.Method = <<>> THEN <<"G", "E", "T">> ELSE r.Method,
              URL    |-> fullURL,
              Header |-> header,
              Body   |-> r.Body]

-----------------------------------------------------------------------------
(* The request builder applied to bounded requests *)

MaxPathPieces == 2

PathPieces ==
    {<<"/">>, <<"a">>, <<"{", "a", "}">>, <<"{", "b", "}">>, <<"{">>, <<"}">>}

\* Path templates: a slash, then at most n pieces.
RECURSIVE PathsUpTo(_)
PathsUpTo(n) ==
    IF n = 0 THEN {<<"/">>}
    ELSE LET shorter == PathsUpTo(n - 1)
         IN  shorter \cup {p \o piece : p \in shorter, piece \in PathPieces}

RequestPaths == PathsUpTo(MaxPathPieces)
RequestMethods == {<<>>, <<"G", "E", "T">>, <<"G", " ", "T">>}
RequestParamNames == {<<"a">>, <<"b">>, <<"{", "a">>}
RequestParamValues == {<<"v">>, <<"{", "b", "}">>}
RequestQueryNames == {<<"q">>}
RequestQueryValues == {<<"1", " ">>}
RequestHeaderNames == {<<"c","o","n","t","e","n","t","-","t","y","p","e">>}
RequestHeaderValues == {<<"t">>}
RequestBodies == {<<"{", "}">>}
BaseURLs ==
    {<<"h","t","t","p",":","/","/","h">>,
     <<"h","t","t","p",":","/","/","h","/">>,
     <<"h","t","t","p",":","/","/","h","/","/">>,
     <<"h","t","t","p",":","/","/","h"," ","h">>}

RequestIdle ==
    UNCHANGED <<input, call, prev, spec, plan, files,
                rt, sent, resp, out, stderr, err, sse, cfg, conc>>

\* Every path under GET, the shorter paths under the other methods.
InitRequest ==
    /\ \E method \in RequestMethods, path \in RequestPaths :
          /\ method = <<"G", "E", "T">>
                 \/ path \in PathsUpTo(MaxPathPieces - 1)
          /\ req = NewRequest(method, path)
    /\ built = NotBuilt
    /\ input = <<>>
    /\ call = NoCall
    /\ prev = NoCall
    /\ spec = [Operations |-> <<>>]
    /\ plan = NoPlan
    /\ files = NoFiles
    /\ RuntimeAtRest

SetPathParam ==
    /\ built = NotBuilt
    /\ \E name \in RequestParamNames, value \in RequestParamValues :
          req' = [req EXCEPT !.PathParams = (name :> value) @@ @]
    /\ built' = built
    /\ RequestIdle

SetQueryParam ==
    /\ built = NotBuilt
    /\ \E name \in RequestQueryNames, value \in RequestQueryValues :
          req' = [req EXCEPT !.QueryParams = (name :> value) @@ @]
    /\ built' = built
    /\ RequestIdle

SetHeader ==
    /\ built = NotBuilt
    /\ \E name \in RequestHeaderNames, value \in RequestHeaderValues :
          req' = [req EXCEPT !.Headers = (name :> value) @@ @]
    /\ built' = built
    /\ RequestIdle

SetBody ==
    /\ built = NotBuilt
    /\ \E body \in RequestBodies :
          req' = [req EXCEPT !.Body = [isNil |-> FALSE, bytes |-> body]]
    /\ built' = built
    /\ RequestIdle

\* req.Build(ctx, baseURL); the outcome is kept with the base URL of the
\* call.
BuildRequest ==
    /\ built = NotBuilt
    /\ \E baseURL \in BaseURLs,
          pathOrder \in Orders(DOMAIN req.PathParams),
          headerOrder \in Orders(DOMAIN req.Headers) :
          built' = RequestBuild(req, baseURL, pathOrder, headerOrder)
                      @@ [BaseURL |-> baseURL]
    /\ req' = req
    /\ RequestIdle

NextRequest ==
    \/ SetPathParam
    \/ SetQueryParam
    \/ SetHeader
    \/ SetBody
    \/ BuildRequest

SpecRequest == InitRequest /\ [][NextRequest]_vars

-----------------------------------------------------------------------------
(* Properties of the request builder *)

MissingPrefix == "missing required path parameter(s): "
CreatePrefix == "failed to create request: "

\* The placeholders of the request's path that have no entry in PathParams,
\* in the order they occur in the template.
Unsupplied ==
    LET ms == FindPlaceholders(req.Path, 1)
        names == [i \in 1..Len(ms) |-> ms[i].name]
    IN  SelectSeq(names, LAMBDA n : \A k \in DOMAIN req.PathParams : k # n)

ListsUnsupplied ==
    /\ built.status = "error"
    /\ built.prefix = MissingPrefix
    /\ built.names = Join(Unsupplied, <<",", " ">>)
    /\ \A k \in DOMAIN req.PathParams : k \notin Range(Unsupplied)

\* C1: Build fails exactly when some placeholder of the path template has
\* no entry in PathParams; it then returns no request and its message lists
\* every missing name in template order, joined by ", ", and no supplied
\* name.
C1_BuildFailsIffPlaceholderMissing ==
    built # NotBuilt =>
        /\ built.status = "error" <=> Unsupplied # <<>>
        /\ Unsupplied # <<>> => ListsUnsupplied

\* C1, amended: Build returns the missing-path-parameter error exactly when
\* some placeholder of the path template has no entry in PathParams; it then
\* returns no request and its message lists every missing name in template
\* order, joined by ", ", and no supplied name.  With every placeholder
\* supplied Build can still fail, and then only with the error of
\* http.NewRequestWithContext wrapped as "failed to create request".
C1_MissingErrorIffPlaceholderMissing ==
    built # NotBuilt =>
        /\ (built.status = "error" /\ built.prefix = MissingPrefix)
              <=> Unsupplied # <<>>
        /\ Unsupplied # <<>> => ListsUnsupplied
        /\ built.status = "error" /\ Unsupplied = <<>>
              => built.prefix = CreatePrefix

\* Build has failed on a template with two different unsupplied
\* placeholders, on a request that holds a value for another name.
C1_Witness ==
    /\ built.status = "error"
    /\ Len(Unsupplied) >= 2
    /\ Unsupplied[1] # Unsupplied[2]
    /\ DOMAIN req.PathParams # {}

\* The template with every placeholder match replaced by the percent-encoded
\* value of its name, and the text between the matches as it is.
RECURSIVE SubstituteMatches(_, _, _, _)
SubstituteMatches(path, params, ms, pos) ==
    IF ms = <<>> THEN SubSeq(path, pos, Len(path))
    ELSE SubSeq(path, pos, Head(ms).at - 1)
         \o PathEscape(params[Head(ms).name])
         \o SubstituteMatches(path, params, Tail(ms),
                              Head(ms).at + Len(Head(ms).name) + 2)

QuerySuffix ==
    IF DOMAIN req.QueryParams = {} THEN <<>>
    ELSE <<"?">> \o EncodeQuery(req.QueryParams)

\* C15: when Build succeeds every {name} placeholder of the template is
\* replaced by the percent-encoded value supplied for name, no placeholder
\* remains in the URL path, and the URL is the same for every order in which
\* the path parameters are substituted.
C15_PlaceholdersSubstituted ==
    built.status = "ok" =>
        LET path == SubstituteMatches(req.Path, req.PathParams,
                                      FindPlaceholders(req.Path, 1), 1)
        IN  /\ FindPlaceholders(path, 1) = <<>>
            /\ \E baseURL \in BaseURLs :
                  built.URL = TrimSuffixSlash(baseURL) \o path \o QuerySuffix

\* C16: base-URL joining never produces a doubled slash: for every base URL
\* and every path that begins with a slash, the URL Build makes has no
\* doubled slash where the base ends and the path begins.
C16_NoDoubledSlashAtJunction ==
    (built.status = "ok" /\ req.Path # <<>> /\ req.Path[1] = "/") =>
        LET base == built.BaseURL
            junction == IF base # <<>> /\ base[Len(base)] = "/"
                        THEN Len(base) - 1 ELSE Len(base)
        IN  /\ SubSeq(built.URL, 1, junction) = SubSeq(base, 1, junction)
            /\ built.URL[junction + 1] = "/"
            /\ ~(built.URL[junction] = "/" /\ built.URL[junction + 1] = "/")

-----------------------------------------------------------------------------
(* package runtime: Runtime.Do, up to the call of the HTTP client *)

\* err.Error() of an error Build returned.
BuildErrorMessage(b) ==
    IF b.prefix = "missing required path parameter(s): "
    THEN <<b.prefix>> \o b.names
    ELSE <<b.prefix, b.cause>>

\* A Do that sets the headers of the Runtime first and the headers of the
\* request on top of them.
DoRequestRuntimeFirst(b, r, runtimeOrder) ==
    [status |-> "sent",
     Method |-> b.Method,
     URL    |-> b.URL,
     Header |-> b.Header @@ SetHeaders(<<>>, r.Headers, runtimeOrder),
     Body   |-> b.Body]

\* The request Do hands to r.HTTPClient.Do: the request Build made, with
\* the headers of the Runtime set on it in the given order.
DoRequest(b, r, runtimeOrder) ==
    [status |-> "sent",
     Method |-> b.Method,
     URL    |-> b.URL,
     Header |-> SetHeaders(b.Header, r.Headers, runtimeOrder),
     Body   |-> b.Body]

InitTransport ==
    /\ \E path \in {<<"/">>, <<"/", "{", "a", "}">>} :
          req = NewRequest(<<"G", "E", "T">>, path)
    /\ rt = New(<<"h","t","t","p",":","/","/","h">>)
    /\ built = NotBuilt
    /\ sent = NotSent
    /\ resp = NoResponse
    /\ out = <<>>
    /\ stderr = <<>>
    /\ err = NoReturn
    /\ OthersAtRest
    /\ input = <<>>
    /\ call = NoCall
    /\ prev = NoCall
    /\ spec = [Operations |-> <<>>]
    /\ plan = NoPlan
    /\ files = NoFiles

\* req.SetHeader(name, value), before Do.
SetHeaderBeforeDo ==
    /\ built = NotBuilt
    /\ \E name \in {<<"c","o","n","t","e","n","t","-","t","y","p","e">>,
                    ContentType, <<"X","-","A">>},
          value \in {<<"t">>, <<"u">>} :
          req' = [req EXCEPT !.Headers = (name :> value) @@ @]
    /\ built' = built
    /\ RequestIdle

\* r.AddHeader(key, value), before Do.
AddHeader ==
    /\ built = NotBuilt
    /\ \E key \in {ContentType, <<"x","-","a">>, <<"X","-","B">>},
          value \in {<<"r">>} :
          rt' = [rt EXCEPT !.Headers = (key :> value) @@ @]
    /\ UNCHANGED <<input, call, prev, spec, plan, files, req, built,
                   sent, resp, out, stderr, err, sse, cfg, conc>>

\* r.Do(ctx, req) up to r.HTTPClient.Do(httpReq): Build, then the headers of
\* the Runtime; a Build error is returned wrapped.
DoSend ==
    /\ built = NotBuilt
    /\ \E pathOrder \in Orders(DOMAIN req.PathParams),
          headerOrder \in Orders(DOMAIN req.Headers),
          runtimeOrder \in Orders(DOMAIN rt.Headers) :
          LET b == RequestBuild(req, rt.BaseURL, pathOrder, headerOrder)
          IN  /\ built' = b @@ [BaseURL |-> rt.BaseURL]
              /\ IF b.status = "error"
                 THEN /\ sent' = sent
                      /\ err' = ReturnError(<<"failed to build request: ">>
                                            \o BuildErrorMessage(b))
                 ELSE /\ sent' = DoRequest(b, rt, runtimeOrder)
                      /\ err' = err
    /\ UNCHANGED <<input, call, prev, spec, plan, files, req, rt,
                   resp, out, stderr, sse, cfg, conc>>

\* The names of a header map that share a canonical form.
NamesOf(headers, canonical) ==
    {name \in DOMAIN headers : CanonicalMIMEHeaderKey(name) = canonical}

ValuesOf(headers, canonical) ==
    {headers[name] : name \in NamesOf(headers, canonical)}

CanonicalNames(headers) ==
    {CanonicalMIMEHeaderKey(name) : name \in DOMAIN headers}

\* C17 as stated: a header name in both Request.Headers and Runtime.Headers
\* reaches the transport with the Runtime value, and a name in only one of
\* the two maps reaches it with the value that map gives it.
C17_RuntimeHeadersOnTop ==
    sent.status = "sent" =>
        \A name \in DOMAIN req.Headers \cup DOMAIN rt.Headers :
            /\ CanonicalMIMEHeaderKey(name) \in DOMAIN sent.Header
            /\ sent.Header[CanonicalMIMEHeaderKey(name)] =
                   IF name \in DOMAIN rt.Headers
                   THEN rt.Headers[name]
                   ELSE req.Headers[name]

\* C17 amended: with names compared by canonical form, the request handed to
\* the transport carries under a name a value the Runtime has for it; if the
\* Runtime has none, application/json for Content-Type when the request has
\* a body; otherwise a value the Request has for it; and no other header.
C17_RuntimeHeadersOnTopOfBuilt ==
    sent.status = "sent" =>
        /\ DOMAIN sent.Header =
               CanonicalNames(req.Headers) \cup CanonicalNames(rt.Headers)
               \cup (IF req.Body # NilBody THEN {ContentType} ELSE {})
        /\ \A c \in DOMAIN sent.Header :
               IF NamesOf(rt.Headers, c) # {}
               THEN sent.Header[c] \in ValuesOf(rt.Headers, c)
               ELSE IF c = ContentType /\ req.Body # NilBody
                    THEN sent.Header[c] = ApplicationJSON
                    ELSE sent.Header[c] \in ValuesOf(req.Headers, c)

\* A request with a body reached the transport with a header both maps
\* name, one only the Request names and one only the Runtime names.
C17_Witness ==
    /\ sent.status = "sent"
    /\ req.Body # NilBody
    /\ ContentType \in DOMAIN req.Headers \cap DOMAIN rt.Headers
    /\ sent.Header[ContentType] = rt.Headers[ContentType]
    /\ <<"X","-","A">> \in DOMAIN req.Headers
    /\ NamesOf(rt.Headers, <<"X","-","A">>) = {}
    /\ <<"X","-","B">> \in DOMAIN rt.Headers

\* C18: Build sets Content-Type to application/json only for a request with
\* a body. With Body nil the built request has the caller's headers and no
\* other, and its Content-Type, if any, is a value the caller gave; with
\* Body non-nil its Content-Type is application/json.
C18_ContentTypeOnlyWithBody ==
    built.status = "ok" =>
        IF req.Body.isNil
        THEN /\ DOMAIN built.Header = CanonicalNames(req.Headers)
             /\ \A c \in DOMAIN built.Header :
                    built.Header[c] \in ValuesOf(req.Headers, c)
        ELSE /\ ContentType \in DOMAIN built.Header
             /\ built.Header[ContentType] = ApplicationJSON

\* Build made a request without a body and without a Content-Type, although
\* the caller set another header.
C18_Witness ==
    /\ built.status = "ok"
    /\ req.Body.isNil
    /\ DOMAIN req.Headers = {<<"X","-","A">>}
    /\ ContentType \notin DOMAIN built.Header

-----------------------------------------------------------------------------
(* package runtime: handleResponse, isJSON, prettyPrint *)

\* json.Unmarshal(data, &v) into an interface{}: [ok |-> FALSE], or the
\* value: a number or a string with its text, an array with its elements,
\* an object as a map that keeps the last of equal keys.  Numbers are runs
\* of digits and the escapes of a string are the three that MarshalIndent
\* writes: the texts of the model have no sign, fraction, exponent or
\* literal, and no other backslash.
Unmarshal(data) ==
    LET n == Len(data)
        Fail == [ok |-> FALSE]
        RECURSIVE SkipSpace(_)
        SkipSpace(i) ==
            IF i <= n /\ data[i] \in {" ", "\t", "\r", "\n"}
            THEN SkipSpace(i + 1) ELSE i
        RECURSIVE DigitsEnd(_)
        DigitsEnd(i) ==
            IF i <= n /\ data[i] \in Range(Digits)
            THEN DigitsEnd(i + 1) ELSE i
        ParseNumber(i) ==
            LET j == DigitsEnd(i)
            IN  IF data[i] = "0" /\ j > i + 1 THEN Fail
                ELSE [ok |-> TRUE,
                      val |-> [t |-> "number", s |-> SubSeq(data, i, j - 1)],
                      next |-> j]
        RECURSIVE Unescape(_)
        Unescape(str) ==
            IF str = <<>> THEN <<>>
            ELSE IF Len(str) >= 6 /\ SubSeq(str, 1, 4) = <<"\\", "u", "0", "0">>
            THEN (CASE SubSeq(str, 5, 6) = <<"3", "c">> -> <<"<">>
                    [] SubSeq(str, 5, 6) = <<"3", "e">> -> <<">">>
                    [] SubSeq(str, 5, 6) = <<"2", "6">> -> <<"&">>)
                 \o Unescape(SubSeq(str, 7, Len(str)))
            ELSE <<Head(str)>> \o Unescape(Tail(str))
        ParseString(i) ==
            LET quotes == {j \in (i + 1)..n : data[j] = "\""}
            IN  IF quotes = {} THEN Fail
                ELSE LET j == CHOOSE q \in quotes : \A k \in quotes : q <= k
                     IN  IF \E k \in (i + 1)..(j - 1) :
                                data[k] \in {"\t", "\r", "\n"}
                         THEN Fail
                         ELSE [ok |-> TRUE,
                               val |-> [t |-> "string",
                                        s |-> Unescape(
                                                  SubSeq(data, i + 1, j - 1))],
                               next |-> j + 1]
        RECURSIVE ParseValue(_), ParseElements(_, _), ParseMembers(_, _)
        ParseValue(i) ==
            LET j == SkipSpace(i)
            IN  IF j > n THEN Fail
                ELSE IF data[j] = "{"
                THEN LET k == SkipSpace(j + 1)
                     IN  IF k <= n /\ data[k] = "}"
                         THEN [ok |-> TRUE,
                               val |-> [t |-> "object", m |-> <<>>],
                               next |-> k + 1]
                         ELSE ParseMembers(k, <<>>)
                ELSE IF data[j] = "["
                THEN LET k == SkipSpace(j + 1)
                     IN  IF k <= n /\ data[k] = "]"
                         THEN [ok |-> TRUE,
                               val |-> [t |-> "array", e |-> <<>>],
                               next |-> k + 1]
                         ELSE ParseElements(k, <<>>)
                ELSE IF data[j] = "\"" THEN ParseString(j)
                ELSE IF data[j] \in Range(Digits) THEN ParseNumber(j)
                ELSE Fail
        ParseElements(i, acc) ==
            LET v == ParseValue(i)
            IN  IF ~v.ok THEN Fail
                ELSE LET k == SkipSpace(v.next)
                     IN  IF k > n THEN Fail
                         ELSE IF data[k] = ","
                         THEN ParseElements(k + 1, Append(acc, v.val))
                         ELSE IF data[k] = "]"
                         THEN [ok |-> TRUE,
                               val |-> [t |-> "array",
                                        e |-> Append(acc, v.val)],
                               next |-> k + 1]
                         ELSE Fail
        ParseMembers(i, acc) ==
            LET j == SkipSpace(i)
            IN  IF j > n \/ data[j] # "\"" THEN Fail
                ELSE LET key == ParseString(j)
                     IN  IF ~key.ok THEN Fail
                         ELSE LET k == SkipSpace(key.next)
                              IN  IF k > n \/ data[k] # ":" THEN Fail
                                  ELSE LET v == ParseValue(k + 1)
                                       IN  IF ~v.ok THEN Fail
                                           ELSE LET l == SkipSpace(v.next)
                                                    m == (key.val.s :> v.val) @@ acc
                                                IN  IF l > n THEN Fail
                                                    ELSE IF data[l] = ","
                                                    THEN ParseMembers(l + 1, m)
                                                    ELSE IF data[l] = "}"
                                                    THEN [ok |-> TRUE,
                                                          val |-> [t |-> "object", m |-> m],
                                                          next |-> l + 1]
                                                    ELSE Fail
        top == ParseValue(1)
    IN  IF top.ok /\ SkipSpace(top.next) > n
        THEN [ok |-> TRUE, val |-> top.val]
        ELSE Fail

\* json.MarshalIndent(v, "", "  ") at a nesting depth: the keys of an object
\* sorted, an empty array or object closed at once, and the runes < > & of a
\* string as their \u00XX escapes.
RECURSIVE MarshalIndent(_, _)
MarshalIndent(v, depth) ==
    LET NewLine(d) == <<"\n">> \o [i \in 1..(2 * d) |-> " "]
        Escape(c) ==
            CASE c = "<" -> <<"\\", "u", "0", "0", "3", "c">>
              [] c = ">" -> <<"\\", "u", "0", "0", "3", "e">>
              [] c = "&" -> <<"\\", "u", "0", "0", "2", "6">>
              [] OTHER   -> <<c>>
        Quote(str) ==
            <<"\"">> \o Flatten([i \in 1..Len(str) |-> Escape(str[i])])
                     \o <<"\"">>
        keys == SortStrings(DOMAIN v.m)
    IN  CASE v.t = "number" -> v.s
          [] v.t = "string" -> Quote(v.s)
          [] v.t = "array" ->
                IF v.e = <<>> THEN <<"[", "]">>
                ELSE <<"[">> \o NewLine(depth + 1)
                     \o Join([i \in 1..Len(v.e) |->
                                 MarshalIndent(v.e[i], depth + 1)],
                             <<",">> \o NewLine(depth + 1))
                     \o NewLine(depth) \o <<"]">>
          [] v.t = "object" ->
                IF DOMAIN v.m = {} THEN <<"{", "}">>
                ELSE <<"{">> \o NewLine(depth + 1)
                     \o Join([i \in 1..Len(keys) |->
                                 Quote(keys[i]) \o <<":", " ">>
                                 \o MarshalIndent(v.m[keys[i]], depth + 1)],
                             <<",">> \o NewLine(depth + 1))
                     \o NewLine(depth) \o <<"}">>

isJSON(data) == Unmarshal(data).ok

\* A prettyPrint that writes the data as it came.
prettyPrintRaw(data, output) == output \o data \o <<"\n">>

\* prettyPrint(data, out): what out holds afterwards.
prettyPrint(data, output) ==
    LET parsed == Unmarshal(data)
    IN  IF ~parsed.ok THEN output \o data \o <<"\n">>
        ELSE output \o MarshalIndent(parsed.val, 0) \o <<"\n">>

\* strconv.Itoa, as the verb %d formats an int.
RECURSIVE Itoa(_)
Itoa(n) ==
    IF n < 0 THEN <<"-">> \o Itoa(0 - n)
    ELSE IF n < 10 THEN <<Digits[n + 1]>>
    ELSE Itoa(n \div 10) \o <<Digits[(n % 10) + 1]>>

\* A status check that lets 300 pass.
IsErrorStatusAbove300(code) == code < 200 \/ code > 300

\* The check for a non-2xx status.
IsErrorStatus(code) == code < 200 \/ code >= 300

\* handleResponse(resp, out): what out holds afterwards, what it wrote to
\* os.Stderr, and the error it returned.
handleResponse(response, output) ==
    LET body == response.Body
    IN  IF response.ReadError # ""
        THEN [out |-> output, stderr |-> <<>>,
              err |-> ReturnError(<<"failed to read response body: ",
                                    response.ReadError>>)]
        ELSE IF IsErrorStatus(response.StatusCode)
        THEN [out |-> output,
              stderr |-> <<"Error: HTTP ">> \o Itoa(response.StatusCode)
                         \o <<" ">> \o response.Status \o <<"\n">>
                         \o (IF Len(body) > 0 THEN body \o <<"\n">>
                             ELSE <<>>),
              err |-> ReturnError(<<"request failed with status ">>
                                  \o Itoa(response.StatusCode))]
        ELSE [out |-> IF Len(body) > 0
                      THEN IF isJSON(body) THEN prettyPrint(body, output)
                           ELSE output \o body \o <<"\n">>
                      ELSE output,
              stderr |-> <<>>,
              err |-> ReturnNil]

-----------------------------------------------------------------------------
(* handleResponse applied to bounded responses *)

MaxBodyPieces == 4

BodyPieces ==
    {<<"{">>, <<"}">>, <<"[">>, <<"]">>, <<"1">>, <<",">>, <<" ">>,
     <<"\"", "<", "\"">>,
     <<"\"", "b", "\"", ":", "1", ",">>,
     <<"\"", "a", "\"", ":", "[", "1", "]">>}

\* Bodies: at most n pieces.
RECURSIVE BodiesUpTo(_)
BodiesUpTo(n) ==
    IF n = 0 THEN {<<>>}
    ELSE LET shorter == BodiesUpTo(n - 1)
         IN  shorter \cup {b \o piece : b \in shorter, piece \in BodyPieces}

\* The responses: every body under status 200, the short bodies under the
\* statuses around the 2xx range, read in full or not.
InitResponse ==
    /\ \E code \in {199, 200, 299, 300}, body \in BodiesUpTo(MaxBodyPieces),
          readError \in {"", "unexpected EOF"} :
          /\ (code # 200 \/ readError # "") => body \in BodiesUpTo(1)
          /\ resp = [status |-> "received", StatusCode |-> code,
                     Status |-> Itoa(code) \o <<" ", "S">>,
                     Body |-> body, ReadError |-> readError]
    /\ rt = New(<<>>)
    /\ sent = NotSent
    /\ out = <<>>
    /\ stderr = <<>>
    /\ err = NoReturn
    /\ OthersAtRest
    /\ req = NoRequest
    /\ built = NotBuilt
    /\ input = <<>>
    /\ call = NoCall
    /\ prev = NoCall
    /\ spec = [Operations |-> <<>>]
    /\ plan = NoPlan
    /\ files = NoFiles

\* handleResponse(resp, r.Output)
HandleResponse ==
    /\ resp.status = "received"
    /\ ~err.returned
    /\ \E h \in {handleResponse(resp, out)} :
          /\ out' = h.out
          /\ stderr' = stderr \o h.stderr
          /\ err' = h.err
    /\ UNCHANGED <<input, call, prev, spec, plan, files, req, built,
                   rt, sent, resp, sse, cfg, conc>>

NextResponse == HandleResponse

SpecResponse == InitResponse /\ [][NextResponse]_vars

\* The error for a status: its text and the status in decimal, nothing of
\* the body.
StatusError(code) ==
    ReturnError(<<"request failed with status ">> \o Itoa(code))

\* C19 as stated: handleResponse returns an error if and only if the
\* status is outside 200..299; the error is the text with the status in
\* decimal and nothing of the body, and the output sink is left as it was.
C19_ErrorIffStatusOutside2xx ==
    err.returned =>
        /\ ~err.nil <=> (resp.StatusCode < 200 \/ resp.StatusCode > 299)
        /\ ~err.nil => (err = StatusError(resp.StatusCode) /\ out = <<>>)

\* C19 amended: when the body is read in full, handleResponse returns an
\* error if and only if the status is outside 200..299, and the error is
\* the text with the status in decimal and nothing of the body; when the
\* read of the body fails it returns an error for every status; an error
\* leaves the output sink as it was.
C19_ErrorIffStatusOutside2xxOrReadFails ==
    err.returned =>
        /\ ~err.nil <=> \/ resp.ReadError # ""
                        \/ resp.StatusCode < 200
                        \/ resp.StatusCode > 299
        /\ (~err.nil /\ resp.ReadError = "") =>
               err = StatusError(resp.StatusCode)
        /\ ~err.nil => out = <<>>

\* Status 300 with a body that was read: the error names 300, the body went
\* to os.Stderr and the output sink is empty.
C19_Witness ==
    /\ err.returned
    /\ resp.StatusCode = 300
    /\ resp.ReadError = ""
    /\ resp.Body = <<"1">>
    /\ err.msg = <<"request failed with status ", "3", "0", "0">>
    /\ stderr # <<>>
    /\ out = <<>>

\* Every line break of a text but its last is followed by two spaces for
\* each bracket that is open where the next line begins.
IndentedByTwo(text) ==
    \A i \in 1..(Len(text) - 1) :
        text[i] = "\n" =>
            LET j == CHOOSE k \in (i + 1)..Len(text) :
                         /\ text[k] # " "
                         /\ \A l \in (i + 1)..(k - 1) : text[l] = " "
                opened == Cardinality({k \in 1..i : text[k] \in {"{", "["}})
                closed == Cardinality({k \in 1..i : text[k] \in {"}", "]"}})
                depth  == opened - closed
                          - (IF text[j] \in {"}", "]"} THEN 1 ELSE 0)
            IN  j - i - 1 = 2 * depth

-----------------------------------------------------------------------------
(* package runtime: handleSSE *)

\* MaxSSEEventSize and bufio.MaxScanTokenSize, scaled from 10 MiB and 64 KiB
\* to sizes the streams of the model reach.  As in the program the longest
\* line a Scanner delivers is shorter than the largest event.
MaxSSEEventSize == 5
MaxScanTokenSize == 10

ErrSSEEventTooLarge ==
    ReturnError(<<"SSE event data exceeds maximum allowed size">>)

\* strings.TrimSpace
RECURSIVE TrimSpace(_)
TrimSpace(str) ==
    LET space == {" ", "\t", "\n", "\r"}
    IN  IF str = <<>> THEN <<>>
        ELSE IF Head(str) \in space THEN TrimSpace(Tail(str))
        ELSE IF str[Len(str)] \in space
        THEN TrimSpace(SubSeq(str, 1, Len(str) - 1))
        ELSE str

\* scanner.Scan() and scanner.Text() of a bufio.Scanner that splits lines,
\* on a reader whose bytes are read up to position pos - 1: the next line,
\* without its line end, and the position after it; or no line, with the
\* scanner.Err() that ended the scan ("" at the end of the stream).  A read
\* error leaves the bytes that came before it as the last line; a line that
\* does not fit in the buffer with its newline is not delivered.
ScannerScan(reader, pos) ==
    LET data     == reader.data
        newlines == {i \in pos..Len(data) : data[i] = "\n"}
        stop     == IF newlines = {} THEN Len(data) + 1
                    ELSE CHOOSE i \in newlines : \A j \in newlines : i <= j
        token    == SubSeq(data, pos, stop - 1)
        dropCR   == IF token # <<>> /\ token[Len(token)] = "\r"
                    THEN SubSeq(token, 1, Len(token) - 1) ELSE token
    IN  IF Len(token) >= MaxScanTokenSize
        THEN [ok |-> FALSE, err |-> "bufio.Scanner: token too long"]
        ELSE IF newlines = {} /\ token = <<>>
        THEN [ok |-> FALSE, err |-> reader.err]
        ELSE [ok |-> TRUE, line |-> dropCR,
              next |-> IF newlines = {} THEN stop ELSE stop + 1]

\* What handleSSE writes for the data of an event.
sseRender(data, output) ==
    IF isJSON(data) THEN prettyPrint(data, output)
    ELSE output \o data \o <<"\n">>

\* The check of the size before a payload is appended.
sseTooLarge(dataBuffer, data) ==
    Len(dataBuffer) + Len(data) + 1 > MaxSSEEventSize

\* A payload appended with a newline before it, whatever the buffer holds.
sseAppendAlwaysJoined(dataBuffer, data) ==
    dataBuffer \o <<"\n">> \o data

\* A payload appended to the buffer, after a newline if the buffer holds
\* something.
sseAppend(dataBuffer, data) ==
    IF Len(dataBuffer) > 0 THEN dataBuffer \o <<"\n">> \o data
    ELSE data

\* A body of the loop that renders at every blank line, whatever the buffer
\* holds.
sseLineRendersEveryBlank(line, dataBuffer, output) ==
    LET data == TrimSpace(SubSeq(line, 6, Len(line)))
    IN  IF line = <<>>
        THEN [dataBuffer |-> <<>>,
              out |-> sseRender(TrimSpace(dataBuffer), output),
              tooLarge |-> FALSE]
        ELSE IF HasPrefix(line, <<"d", "a", "t", "a", ":">>)
                /\ ~sseTooLarge(dataBuffer, data)
        THEN [dataBuffer |-> sseAppend(dataBuffer, data), out |-> output,
              tooLarge |-> FALSE]
        ELSE [dataBuffer |-> dataBuffer, out |-> output,
              tooLarge |-> HasPrefix(line, <<"d", "a", "t", "a", ":">>)]

\* The body of the loop of handleSSE for one line: the buffer and the
\* output afterwards, and whether it returned ErrSSEEventTooLarge.
sseLine(line, dataBuffer, output) ==
    LET same == [dataBuffer |-> dataBuffer, out |-> output,
                 tooLarge |-> FALSE]
        data == TrimSpace(SubSeq(line, 6, Len(line)))
    IN  IF line = <<>>
        THEN IF Len(dataBuffer) > 0
             THEN [dataBuffer |-> <<>>,
                   out |-> IF TrimSpace(dataBuffer) # <<>>
                           THEN sseRender(TrimSpace(dataBuffer), output)
                           ELSE output,
                   tooLarge |-> FALSE]
             ELSE same
        ELSE IF HasPrefix(line, <<":">>) THEN same
        ELSE IF HasPrefix(line, <<"d", "a", "t", "a", ":">>)
        THEN IF sseTooLarge(dataBuffer, data)
             THEN [same EXCEPT !.tooLarge = TRUE]
             ELSE [same EXCEPT !.dataBuffer = sseAppend(dataBuffer, data)]
        ELSE IF \/ HasPrefix(line, <<"e", "v", "e", "n", "t", ":">>)
                \/ HasPrefix(line, <<"i", "d", ":">>)
                \/ HasPrefix(line, <<"r", "e", "t", "r", "y", ":">>)
        THEN same
        ELSE same

\* handleSSE after the loop: the remaining data, then scanner.Err().
sseEnd(scanErr, dataBuffer, output) ==
    [out |-> IF Len(dataBuffer) > 0 /\ TrimSpace(dataBuffer) # <<>>
             THEN sseRender(TrimSpace(dataBuffer), output)
             ELSE output,
     err |-> IF scanErr # ""
             THEN ReturnError(<<"error reading SSE stream: ", scanErr>>)
             ELSE ReturnNil]

\* handleSSE(reader, out) from a position of the reader on: what out holds
\* afterwards and the error returned.
RECURSIVE handleSSE(_, _, _, _)
handleSSE(reader, pos, dataBuffer, output) ==
    LET scan == ScannerScan(reader, pos)
        step == sseLine(scan.line, dataBuffer, output)
    IN  IF ~scan.ok THEN sseEnd(scan.err, dataBuffer, output)
        ELSE IF step.tooLarge
        THEN [out |-> step.out, err |-> ErrSSEEventTooLarge]
        ELSE handleSSE(reader, scan.next, step.dataBuffer, step.out)

-----------------------------------------------------------------------------
(* package runtime: Runtime.Do, from the answer of the HTTP client on *)

\* isEventStream(contentType): strings.Contains(contentType,
\* "text/event-stream").
isEventStream(contentType) ==
    LET sub == <<"t","e","x","t","/","e","v","e","n","t","-",
                 "s","t","r","e","a","m">>
    IN  \E i \in 1..(Len(contentType) - Len(sub) + 1) :
            SubSeq(contentType, i, i + Len(sub) - 1) = sub

\* r.HTTPClient.Do(httpReq) fails: the transport error or the deadline,
\* before a response is there.
DoFails ==
    /\ sent.status = "sent"
    /\ resp = NoResponse
    /\ ~err.returned
    /\ \E cause \in {"context deadline exceeded", "connection refused"} :
          err' = ReturnError(<<"request failed: ", cause>>)
    /\ UNCHANGED <<input, call, prev, spec, plan, files, req, built,
                   rt, sent, resp, out, stderr, sse, cfg, conc>>

\* handleSSE(reader, out) is entered.
EnterSSE(reader) ==
    [status |-> "running", reader |-> reader, pos |-> 1,
     dataBuffer |-> <<>>, seen |-> <<>>]

\* r.HTTPClient.Do(httpReq) answers, and Do handles the response: an event
\* stream by handleSSE, whose loop the steps SSEScanLine and SSEEndOfStream
\* run, any other response by handleResponse.  The body arrives whole, or
\* the read of it fails after the bytes given.
DoReceive ==
    /\ sent.status = "sent"
    /\ resp = NoResponse
    /\ ~err.returned
    /\ \E code \in {200, 500},
          contentType \in {ApplicationJSON,
                           <<"t","e","x","t","/","e","v","e","n","t","-",
                             "s","t","r","e","a","m">>},
          body \in {<<"[", "1", "]">>,
                    <<"d", "a", "t", "a", ":", "[", "1", "]", "\n", "\n">>,
                    <<"d", "a", "t", "a", ":", "[", "1", "]", "\n", "\n",
                      "d", "a", "t", "a", ":", "[", "1">>},
          readError \in {"", "context deadline exceeded"} :
          LET response == [status |-> "received", StatusCode |-> code,
                           Status |-> Itoa(code) \o <<" ", "S">>,
                           ContentType |-> contentType,
                           Body |-> body, ReadError |-> readError]
          IN  /\ resp' = response
              /\ IF isEventStream(contentType)
                 THEN /\ sse' = EnterSSE([data |-> body, err |-> readError])
                      /\ UNCHANGED <<out, stderr, err>>
                 ELSE /\ sse' = sse
                      /\ \E handled \in {handleResponse(response, out)} :
                            /\ out' = handled.out
                            /\ stderr' = stderr \o handled.stderr
                            /\ err' = handled.err
    /\ UNCHANGED <<input, call, prev, spec, plan, files, req, built,
                   rt, sent, cfg, conc>>

-----------------------------------------------------------------------------
(* handleSSE applied to bounded streams, a line at a time *)

MaxStreamLines == 3

\* The lines of a stream: a blank line; data lines with a JSON payload, a
\* payload to trim, no payload and a payload too long for the scanner; a
\* comment, one too long for the scanner, and an event field.
StreamLines ==
    {<<>>,
     <<"d", "a", "t", "a", ":", "[", "1", "]">>,
     <<"d", "a", "t", "a", ":", " ", "a", " ">>,
     <<"d", "a", "t", "a", ":">>,
     <<"d", "a", "t", "a", ":", "1", "2", "3", "4", "5">>,
     <<":", "k">>,
     <<":", "1", "2", "3", "4", "5", "6", "7", "8", "9">>,
     <<"e", "v", "e", "n", "t", ":", "e">>}

\* Streams: at most n lines, each with its newline.
RECURSIVE StreamsUpTo(_)
StreamsUpTo(n) ==
    IF n = 0 THEN {<<>>}
    ELSE LET shorter == StreamsUpTo(n - 1)
         IN  shorter \cup
             {t \o line \o <<"\n">> : t \in shorter, line \in StreamLines}

\* handleSSE(reader, out) is entered: the stream arrives whole, or the read
\* fails before the last newline.
InitSSE ==
    /\ \E data \in StreamsUpTo(MaxStreamLines), cut \in BOOLEAN :
          /\ cut => data # <<>>
          /\ sse = EnterSSE(IF cut
                             THEN [data |-> SubSeq(data, 1, Len(data) - 1),
                                   err |-> "unexpected EOF"]
                             ELSE [data |-> data, err |-> ""])
    /\ out = <<>>
    /\ stderr = <<>>
    /\ err = NoReturn
    /\ rt = New(<<>>)
    /\ sent = NotSent
    /\ resp = NoResponse
    /\ cfg = NoConfig
    /\ conc = NoGoroutines
    /\ req = NoRequest
    /\ built = NotBuilt
    /\ input = <<>>
    /\ call = NoCall
    /\ prev = NoCall
    /\ spec = [Operations |-> <<>>]
    /\ plan = NoPlan
    /\ files = NoFiles

\* One turn of the loop: scanner.Scan() delivers a line.
SSEScanLine ==
    /\ sse.status = "running"
    /\ \E scan \in {ScannerScan(sse.reader, sse.pos)} :
          /\ scan.ok
          /\ \E step \in {sseLine(scan.line, sse.dataBuffer, out)} :
                /\ sse' = [sse EXCEPT !.pos = scan.next,
                                      !.seen = Append(@, scan.line),
                                      !.dataBuffer = step.dataBuffer,
                                      !.status = IF step.tooLarge
                                                 THEN "done" ELSE @]
                /\ out' = step.out
                /\ err' = IF step.tooLarge THEN ErrSSEEventTooLarge
                          ELSE err
    /\ UNCHANGED <<input, call, prev, spec, plan, files, req, built,
                   rt, sent, resp, stderr, cfg, conc>>

\* scanner.Scan() returns false: the remaining data, then the return.
SSEEndOfStream ==
    /\ sse.status = "running"
    /\ \E scan \in {ScannerScan(sse.reader, sse.pos)} :
          /\ ~scan.ok
          /\ \E end \in {sseEnd(scan.err, sse.dataBuffer, out)} :
                /\ sse' = [sse EXCEPT !.status = "done"]
                /\ out' = end.out
                /\ err' = end.err
    /\ UNCHANGED <<input, call, prev, spec, plan, files, req, built,
                   rt, sent, resp, stderr, cfg, conc>>

NextSSE ==
    \/ SSEScanLine
    \/ SSEEndOfStream

SpecSSE == InitSSE /\ [][NextSSE]_vars

\* Runtime.Do, with the loop of handleSSE for an event stream.
NextTransport ==
    \/ SetHeaderBeforeDo
    \/ SetBody
    \/ AddHeader
    \/ DoSend
    \/ DoFails
    \/ DoReceive
    \/ SSEScanLine
    \/ SSEEndOfStream

SpecTransport == InitTransport /\ [][NextTransport]_vars

-----------------------------------------------------------------------------
(* Properties of handleSSE *)

\* The payload of a data line: the prefix stripped, the rest trimmed.
Payload(line) == TrimSpace(SubSeq(line, 6, Len(line)))

IsDataLine(line) ==
    ~HasPrefix(line, <<":">>) /\ HasPrefix(line, <<"d", "a", "t", "a", ":">>)

\* The events of a sequence of lines: for every blank line and for the end
\* of the sequence, the payloads of the data lines since the blank line
\* before, in arrival order.
RECURSIVE EventsOf(_, _)
EventsOf(lines, payloads) ==
    IF lines = <<>> THEN <<payloads>>
    ELSE IF Head(lines) = <<>>
    THEN <<payloads>> \o EventsOf(Tail(lines), <<>>)
    ELSE IF IsDataLine(Head(lines))
    THEN EventsOf(Tail(lines), Append(payloads, Payload(Head(lines))))
    ELSE EventsOf(Tail(lines), payloads)

\* The data of an event: its payloads joined by single newlines, trimmed.
EventData(payloads) == TrimSpace(Join(payloads, <<"\n">>))

\* The renderings of events, each once and in order, those without data
\* left out.
RECURSIVE Renderings(_)
Renderings(events) ==
    IF events = <<>> THEN <<>>
    ELSE (IF EventData(Head(events)) = <<>> THEN <<>>
          ELSE sseRender(EventData(Head(events)), <<>>))
         \o Renderings(Tail(events))

\* The lines of a stream, the last of them with or without its newline.
RECURSIVE LinesOf(_)
LinesOf(data) ==
    IF data = <<>> THEN <<>>
    ELSE IF "\n" \notin Range(data) THEN <<data>>
    ELSE LET i == CHOOSE k \in 1..Len(data) :
                      data[k] = "\n" /\ \A l \in 1..(k - 1) : data[l] # "\n"
         IN  <<SubSeq(data, 1, i - 1)>>
             \o LinesOf(SubSeq(data, i + 1, Len(data)))

\* C22 as stated: when handleSSE has returned, the output is the renderings
\* of the events of the stream with non-empty data, each once and in stream
\* order, the last of them the data that remained at the end of the stream.
C22_EveryEventRenderedOnce ==
    sse.status = "done" =>
        out = Renderings(EventsOf(LinesOf(sse.reader.data), <<>>))

\* C22 amended: at every point the output is the renderings of the events
\* with non-empty data that a blank line closed among the lines the scanner
\* delivered, each once and in order; when the scan ends, with or without a
\* read error, the data that remained is rendered as one more event; when
\* handleSSE returns ErrSSEEventTooLarge nothing more is rendered.
C22_DeliveredEventsRenderedOnce ==
    sse.status # "none" =>
        LET events == EventsOf(sse.seen, <<>>)
            closed == SubSeq(events, 1, Len(events) - 1)
        IN  IF sse.status = "done" /\ err # ErrSSEEventTooLarge
            THEN out = Renderings(events)
            ELSE out = Renderings(closed)

\* Two events were rendered, the first at its blank line and the second at
\* the end of the stream; a blank line with no data in between wrote nothing.
C22_Witness ==
    /\ sse.status = "done"
    /\ err = ReturnNil
    /\ sse.seen = <<<<"d", "a", "t", "a", ":", "[", "1", "]">>, <<>>,
                    <<"d", "a", "t", "a", ":", " ", "a", " ">>>>
    /\ out = <<"[", "\n", " ", " ", "1", "\n", "]", "\n", "a", "\n">>

\* The payloads since the last blank line among the lines seen.
PayloadsSinceBlank ==
    LET events == EventsOf(sse.seen, <<>>) IN events[Len(events)]

RECURSIVE DropLeadingEmpty(_)
DropLeadingEmpty(payloads) ==
    IF payloads # <<>> /\ Head(payloads) = <<>>
    THEN DropLeadingEmpty(Tail(payloads)) ELSE payloads

\* C23 as stated: at every point of handleSSE the accumulator is the
\* payloads of the data lines seen since the last blank line, joined by
\* single newlines in arrival order, and it is empty after a blank line.
C23_AccumulatorIsJoinedPayloads ==
    (sse.status # "none" /\ err # ErrSSEEventTooLarge) =>
        sse.dataBuffer = Join(PayloadsSinceBlank, <<"\n">>)

\* C23 amended: at every point of handleSSE the accumulator is the payloads
\* of the data lines seen since the last blank line, from the first
\* non-empty payload on, joined by single newlines in arrival order, and it
\* is empty after a blank line.
C23_AccumulatorIsJoinedPayloadsFromFirstNonEmpty ==
    (sse.status # "none" /\ err # ErrSSEEventTooLarge) =>
        sse.dataBuffer = Join(DropLeadingEmpty(PayloadsSinceBlank), <<"\n">>)

\* Two data lines of one event were seen: the accumulator holds the two
\* payloads, trimmed, with one newline between them.
C23_Witness ==
    /\ sse.status = "running"
    /\ sse.seen = <<<<"d", "a", "t", "a", ":", " ", "a", " ">>,
                    <<"d", "a", "t", "a", ":", "[", "1", "]">>>>
    /\ sse.dataBuffer = <<"a", "\n", "[", "1", "]">>

\* A comment line or an event:, id: or retry: line.
IsIgnoredLine(line) ==
    \/ HasPrefix(line, <<":">>)
    \/ HasPrefix(line, <<"e", "v", "e", "n", "t", ":">>)
    \/ HasPrefix(line, <<"i", "d", ":">>)
    \/ HasPrefix(line, <<"r", "e", "t", "r", "y", ":">>)

\* A stream without its comment, event:, id: and retry: lines; every other
\* line is kept with its newline, if it has one.
RECURSIVE WithoutIgnoredLines(_)
WithoutIgnoredLines(data) ==
    IF data = <<>> THEN <<>>
    ELSE LET newlines == {i \in 1..Len(data) : data[i] = "\n"}
             stop == IF newlines = {} THEN Len(data)
                     ELSE CHOOSE i \in newlines : \A j \in newlines : i <= j
             rest == WithoutIgnoredLines(SubSeq(data, stop + 1, Len(data)))
         IN  IF IsIgnoredLine(SubSeq(data, 1, stop)) THEN rest
             ELSE SubSeq(data, 1, stop) \o rest

\* C24: comment lines and event:, id: and retry: lines change nothing: when
\* handleSSE has returned, the output and the error are those of handleSSE
\* on the stream with all such lines removed.
C24_IgnoredLinesChangeNothing ==
    sse.status = "done" =>
        [out |-> out, err |-> err] =
            handleSSE([sse.reader EXCEPT !.data = WithoutIgnoredLines(@)],
                      1, <<>>, <<>>)

\* The stream has an event whose accumulated data, the payloads joined by
\* newlines, is larger than MaxSSEEventSize.
HasOversizeEvent ==
    LET events == EventsOf(LinesOf(sse.reader.data), <<>>)
    IN  \E i \in 1..Len(events) :
            Len(Join(DropLeadingEmpty(events[i]), <<"\n">>)) > MaxSSEEventSize

\* C25: handleSSE returns ErrSSEEventTooLarge exactly when the stream has
\* an event whose accumulated data is larger than MaxSSEEventSize; the
\* accumulator never holds more than MaxSSEEventSize bytes; a stream that
\* is read to its end and has no such event is not rejected.
C25_TooLargeIffEventExceedsLimit ==
    /\ sse.status # "none" => Len(sse.dataBuffer) <= MaxSSEEventSize
    /\ sse.status = "done" =>
          /\ err = ErrSSEEventTooLarge <=> HasOversizeEvent
          /\ (~HasOversizeEvent /\ sse.reader.err = "") => err = ReturnNil

-----------------------------------------------------------------------------
(* Properties of Runtime.Do, from the answer of the HTTP client on *)

\* Do has returned after a response came.
DoReturnedOnResponse == resp.status = "received" /\ err.returned

\* C21: when Do has returned on a response whose status code is outside
\* [200,299], whatever its Content-Type, it has returned an error and has
\* written nothing on the output.
C21_ErrorForEveryStatusOutside2xx ==
    (DoReturnedOnResponse /\ resp.StatusCode \notin 200..299) =>
        /\ ~err.nil
        /\ out = <<>>

\* The events of the response body that a blank line closed: all the events
\* of its lines but the one the end of the data leaves open.
ClosedEvents(body) ==
    LET events == EventsOf(LinesOf(body), <<>>)
    IN  SubSeq(events, 1, Len(events) - 1)

\* C26: when the HTTP client failed, or the read of the response body
\* failed, and Do has returned, it has returned an error, and the output
\* holds nothing of a body that was not read whole and nothing of an event
\* that no blank line closed.
C26_FailureRendersNothingPartial ==
    /\ (err.returned /\ sent.status = "sent" /\ resp = NoResponse) =>
           ~err.nil /\ out = <<>>
    /\ (DoReturnedOnResponse /\ resp.ReadError # "") =>
           /\ ~err.nil
           /\ out = IF isEventStream(resp.ContentType)
                    THEN Renderings(ClosedEvents(resp.Body))
                    ELSE <<>>

-----------------------------------------------------------------------------
(* package runtime: config.go *)

\* The environment: the variables that are set, each with its value.
\* os.Getenv gives the empty string for a variable that is not set.
Getenv(environ, key) ==
    IF key \in DOMAIN environ THEN environ[key] ELSE <<>>

XDG_CONFIG_HOME == <<"XDG_CONFIG_HOME">>

\* envPrefix + "BASE_URL", with envPrefix := strings.ToUpper(appName) + "_".
BaseURLVar(appName) ==
    [i \in 1..Len(appName) |-> ToUpperAscii(appName[i])]
        \o <<"_", "B", "A", "S", "E", "_", "U", "R", "L">>

\* The Config that LoadConfig starts from.
NewConfig == [BaseURL |-> <<>>, Headers |-> <<>>]

\* A nil *Config.
NilConfig == [nil |-> TRUE]

\* filepath.Join(configHome, appName, name)
ConfigFilePath(configHome, appName, name) ==
    configHome \o <<"/">> \o appName \o <<"/", name>>

\* getConfigPath(appName): "" when there is no file.  home is the answer of
\* os.UserHomeDir, fs the files that os.Stat finds.
getConfigPath(appName, environ, home, fs) ==
    LET xdg == Getenv(environ, XDG_CONFIG_HOME)
        configHome == IF xdg = <<>> THEN home.dir \o <<"/", ".config">>
                      ELSE xdg
        yaml == ConfigFilePath(configHome, appName, "config.yaml")
        yml  == ConfigFilePath(configHome, appName, "config.yml")
    IN  IF xdg = <<>> /\ ~home.ok THEN <<>>
        ELSE IF yaml \in DOMAIN fs THEN yaml
        ELSE IF yml \in DOMAIN fs THEN yml
        ELSE <<>>

\* mode&0044 != 0: the group or the others may read.
IsInsecureMode(mode) ==
    (mode \div 32) % 2 = 1 \/ (mode \div 4) % 2 = 1

\* The verb %o.
RECURSIVE Octal(_)
Octal(n) ==
    IF n < 8 THEN <<Digits[n + 1]>>
    ELSE Octal(n \div 8) \o <<Digits[(n % 8) + 1]>>

PermissionWarning(path, mode) ==
    <<"Warning: config file ">> \o path
        \o <<" has insecure permissions ">> \o Octal(mode)
        \o <<". Consider running: chmod 600 ">> \o path \o <<"\n">>

\* yaml.Unmarshal(data, config) on the document the file holds.  A document
\* that does not parse leaves the config as it was; a node of the wrong kind
\* is a type error that leaves its field as it was while the other fields
\* are decoded; a null mapping gives a nil map, which reads as an empty one.
yamlUnmarshal(doc, config) ==
    IF ~doc.parses
    THEN [config |-> config, err |-> ReturnError(<<"yaml: syntax error">>)]
    ELSE LET baseURL == IF doc.base_url.kind = "scalar"
                        THEN doc.base_url.value ELSE config.BaseURL
             headers == IF doc.headers.kind = "mapping"
                        THEN doc.headers.value @@ config.Headers
                        ELSE IF doc.headers.kind = "null" THEN <<>>
                        ELSE config.Headers
             typeError == \/ doc.base_url.kind \in {"mapping", "sequence"}
                          \/ doc.headers.kind \in {"scalar", "sequence"}
         IN  [config |-> [BaseURL |-> baseURL, Headers |-> headers],
              err |-> IF typeError
                      THEN ReturnError(<<"yaml: unmarshal errors">>)
                      ELSE ReturnNil]

\* A loadConfigFile that refuses a file the group or the others may read.
loadConfigFileRefusesInsecure(path, config, fs) ==
    IF IsInsecureMode(fs[path].mode)
    THEN [config |-> config,
          warning |-> PermissionWarning(path, fs[path].mode),
          err |-> ReturnError(<<"insecure permissions">>)]
    ELSE IF ~fs[path].readable
    THEN [config |-> config, warning |-> <<>>,
          err |-> ReturnError(<<"open: permission denied">>)]
    ELSE yamlUnmarshal(fs[path].doc, config) @@ [warning |-> <<>>]

\* loadConfigFile(path, config): the config afterwards, what was written on
\* DefaultWarningWriter, and the error.
loadConfigFile(path, config, fs) ==
    LET warning == IF IsInsecureMode(fs[path].mode)
                   THEN PermissionWarning(path, fs[path].mode)
                   ELSE <<>>
    IN  IF path \notin DOMAIN fs
        THEN [config |-> config, warning |-> <<>>,
              err |-> ReturnError(<<"stat: no such file or directory">>)]
        ELSE IF ~fs[path].readable
        THEN [config |-> config, warning |-> warning,
              err |-> ReturnError(<<"open: permission denied">>)]
        ELSE yamlUnmarshal(fs[path].doc, config) @@ [warning |-> warning]

\* A LoadConfig where the file wins: the environment only fills a base URL
\* the file left empty.
LoadConfigFileWins(appName, environ, home, fs) ==
    LET configPath == getConfigPath(appName, environ, home, fs)
        loaded == IF configPath # <<>>
                  THEN loadConfigFile(configPath, NewConfig, fs)
                  ELSE [config |-> NewConfig, warning |-> <<>>]
        baseURL == Getenv(environ, BaseURLVar(appName))
    IN  [config |-> IF baseURL # <<>> /\ loaded.config.BaseURL = <<>>
                    THEN [loaded.config EXCEPT !.BaseURL = baseURL]
                    ELSE loaded.config,
         warning |-> loaded.warning,
         err |-> ReturnNil]

\* LoadConfig(appName): the config and the error returned, and what was
\* written on DefaultWarningWriter.
LoadConfig(appName, environ, home, fs) ==
    LET configPath == getConfigPath(appName, environ, home, fs)
        loaded == IF configPath # <<>>
                  THEN loadConfigFile(configPath, NewConfig, fs)
                  ELSE [config |-> NewConfig, warning |-> <<>>]
        baseURL == Getenv(environ, BaseURLVar(appName))
    IN  [config |-> IF baseURL # <<>>
                    THEN [loaded.config EXCEPT !.BaseURL = baseURL]
                    ELSE loaded.config,
         warning |-> loaded.warning,
         err |-> ReturnNil]

\* A GetEnvOrConfig that looks up any key, the empty one too.
GetEnvOrConfigAnyKey(envVar, configKey, defaultValue, config, environ) ==
    IF Getenv(environ, envVar) # <<>> THEN Getenv(environ, envVar)
    ELSE IF config # NilConfig /\ configKey \in DOMAIN config.Headers
    THEN config.Headers[configKey]
    ELSE defaultValue

\* GetEnvOrConfig(envVar, configKey, defaultValue, config)
GetEnvOrConfig(envVar, configKey, defaultValue, config, environ) ==
    IF Getenv(environ, envVar) # <<>> THEN Getenv(environ, envVar)
    ELSE IF /\ config # NilConfig
            /\ configKey # <<>>
            /\ configKey \in DOMAIN config.Headers
    THEN config.Headers[configKey]
    ELSE defaultValue

-----------------------------------------------------------------------------
(* LoadConfig and GetEnvOrConfig in an environment and a file system *)

AppNames == {<<"A", "p">>}

\* The variable a parameter names for GetEnvOrConfig.
TOKEN == <<"T", "O", "K", "E", "N">>

\* Each of the three variables is unset, set to the empty string, or set.
Environments ==
    UNION {[names -> {<<>>, <<"e">>}] :
              names \in SUBSET {XDG_CONFIG_HOME, TOKEN,
                                BaseURLVar(<<"A", "p">>)}}

\* os.UserHomeDir(): a directory, or an error.
HomeDirs == {[ok |-> TRUE, dir |-> <<"/", "h">>], [ok |-> FALSE, dir |-> <<>>]}

Absent == [kind |-> "absent"]
Scalar(value) == [kind |-> "scalar", value |-> value]
Mapping(value) == [kind |-> "mapping", value |-> value]

\* The documents of a config file: one that does not parse, and mappings
\* with and without base_url and headers, of the right and the wrong kind.
ConfigDocs ==
    {[parses |-> FALSE]}
    \cup {[parses |-> TRUE, base_url |-> b, headers |-> h] :
            b \in {Absent, Scalar(<<"f">>), [kind |-> "sequence"]},
            h \in {Absent, [kind |-> "null"], Scalar(<<"s">>),
                   Mapping((<<"k">> :> <<"v">>) @@ (<<>> :> <<"w">>))}}

\* Permissions 0600, 0640 and 0604.
ConfigFiles ==
    [mode : {384, 416, 388}, readable : BOOLEAN, doc : ConfigDocs]

\* The file systems: config.yaml, config.yml or neither, in the directory
\* of XDG_CONFIG_HOME or in that of the home directory.
FileSystems ==
    {<<>>}
    \cup {ConfigFilePath(dir, <<"A", "p">>, name) :> file :
            dir \in {<<"e">>, <<"/", "h", "/", ".config">>},
            name \in {"config.yaml", "config.yml"},
            file \in ConfigFiles}
    \cup {(ConfigFilePath(<<"e">>, <<"A", "p">>, "config.yaml") :> file)
          @@ (ConfigFilePath(<<"e">>, <<"A", "p">>, "config.yml")
                :> [mode |-> 384, readable |-> TRUE,
                    doc |-> [parses |-> TRUE, base_url |-> Scalar(<<"g">>),
                             headers |-> Absent]]) :
            file \in {f \in ConfigFiles : f.mode = 384 /\ f.readable}}

InitConfig ==
    /\ \E appName \in AppNames, environ \in Environments,
          home \in HomeDirs, fs \in FileSystems :
          cfg = [status |-> "start", appName |-> appName,
                 environ |-> environ, home |-> home, fs |-> fs,
                 config |-> NilConfig, args |-> <<>>, value |-> <<>>]
    /\ out = <<>>
    /\ stderr = <<>>
    /\ err = NoReturn
    /\ rt = New(<<>>)
    /\ sent = NotSent
    /\ resp = NoResponse
    /\ sse = NoSSE
    /\ conc = NoGoroutines
    /\ req = NoRequest
    /\ built = NotBuilt
    /\ input = <<>>
    /\ call = NoCall
    /\ prev = NoCall
    /\ spec = [Operations |-> <<>>]
    /\ plan = NoPlan
    /\ files = NoFiles

\* config, err := LoadConfig(appName)
LoadConfigCall ==
    /\ cfg.status = "start"
    /\ \E loaded \in {LoadConfig(cfg.appName, cfg.environ, cfg.home, cfg.fs)} :
          /\ cfg' = [cfg EXCEPT !.status = "loaded", !.config = loaded.config]
          /\ stderr' = stderr \o loaded.warning
          /\ err' = loaded.err
    /\ UNCHANGED <<input, call, prev, spec, plan, files, req, built,
                   rt, sent, resp, out, sse, conc>>

\* GetEnvOrConfig(envVar, configKey, defaultValue, config), with the config
\* that LoadConfig returned or with nil.
GetEnvOrConfigCall ==
    /\ cfg.status \in {"start", "loaded"}
    /\ \E envVar \in {<<>>, TOKEN}, configKey \in {<<>>, <<"k">>, <<"z">>},
          defaultValue \in {<<"d">>} :
          cfg' = [cfg EXCEPT
                     !.status = "resolved",
                     !.args = <<envVar, configKey, defaultValue>>,
                     !.value = GetEnvOrConfig(envVar, configKey, defaultValue,
                                              cfg.config, cfg.environ)]
    /\ UNCHANGED <<input, call, prev, spec, plan, files, req, built,
                   rt, sent, resp, out, stderr, err, sse, conc>>

NextConfig ==
    \/ LoadConfigCall
    \/ GetEnvOrConfigCall

SpecConfig == InitConfig /\ [][NextConfig]_vars

-----------------------------------------------------------------------------
(* Properties of LoadConfig and GetEnvOrConfig *)

\* The config file that LoadConfig finds, "" when there is none.
FoundPath == getConfigPath(cfg.appName, cfg.environ, cfg.home, cfg.fs)

\* What the file alone gives: the config after loadConfigFile, before the
\* environment is looked at.
FileConfig ==
    IF FoundPath = <<>> THEN NewConfig
    ELSE loadConfigFile(FoundPath, NewConfig, cfg.fs).config

\* C27 as stated: after LoadConfig, when the file sets base_url and the
\* variable <APP>_BASE_URL is set, BaseURL is the value of the variable; the
\* headers are those of the file; when the variable is not set, BaseURL is
\* the value of the file.
C27_EnvOverridesFile ==
    cfg.status = "loaded" =>
        LET var == BaseURLVar(cfg.appName)
        IN  /\ (FileConfig.BaseURL # <<>> /\ var \in DOMAIN cfg.environ) =>
                  cfg.config.BaseURL = cfg.environ[var]
            /\ cfg.config.Headers = FileConfig.Headers
            /\ var \notin DOMAIN cfg.environ =>
                  cfg.config.BaseURL = FileConfig.BaseURL

\* C27, amended: after LoadConfig, when the variable <APP>_BASE_URL is set
\* to a value that is not empty, BaseURL is that value, whatever the file
\* sets; the headers are those of the file; when the variable is not set or
\* is set to the empty string, BaseURL is the value of the file.
C27_NonEmptyEnvOverridesFile ==
    cfg.status = "loaded" =>
        LET var == BaseURLVar(cfg.appName)
            set == var \in DOMAIN cfg.environ /\ cfg.environ[var] # <<>>
        IN  /\ set => cfg.config.BaseURL = cfg.environ[var]
            /\ cfg.config.Headers = FileConfig.Headers
            /\ ~set => cfg.config.BaseURL = FileConfig.BaseURL

\* The file set base_url and headers, the variable is set, and LoadConfig
\* has returned the value of the variable with the headers of the file.
C27_Witness ==
    /\ cfg.status = "loaded"
    /\ FileConfig.BaseURL = <<"f">>
    /\ <<"k">> \in DOMAIN FileConfig.Headers
    /\ Getenv(cfg.environ, BaseURLVar(cfg.appName)) = <<"e">>
    /\ cfg.config.BaseURL = <<"e">>
    /\ cfg.config.Headers = FileConfig.Headers

\* C28 as stated: GetEnvOrConfig returns the value of the variable when it
\* is set and not empty; otherwise the value under configKey in the headers
\* of the config when the config is not nil and the key is there; otherwise
\* the default.
C28_EnvThenConfigThenDefault ==
    cfg.status = "resolved" =>
        LET envVar == cfg.args[1]
            configKey == cfg.args[2]
            defaultValue == cfg.args[3]
            fromEnv == envVar \in DOMAIN cfg.environ
                       /\ cfg.environ[envVar] # <<>>
            fromConfig == cfg.config # NilConfig
                          /\ configKey \in DOMAIN cfg.config.Headers
        IN  /\ fromEnv => cfg.value = cfg.environ[envVar]
            /\ (~fromEnv /\ fromConfig) =>
                  cfg.value = cfg.config.Headers[configKey]
            /\ (~fromEnv /\ ~fromConfig) => cfg.value = defaultValue

\* C28, amended: as stated, but the headers of the config are looked up
\* only for a configKey that is not empty; with an empty configKey the
\* default is returned even when the headers hold the empty key.
C28_EnvThenNamedKeyThenDefault ==
    cfg.status = "resolved" =>
        LET envVar == cfg.args[1]
            configKey == cfg.args[2]
            defaultValue == cfg.args[3]
            fromEnv == envVar \in DOMAIN cfg.environ
                       /\ cfg.environ[envVar] # <<>>
            fromConfig == /\ cfg.config # NilConfig
                          /\ configKey # <<>>
                          /\ configKey \in DOMAIN cfg.config.Headers
        IN  /\ fromEnv => cfg.value = cfg.environ[envVar]
            /\ (~fromEnv /\ fromConfig) =>
                  cfg.value = cfg.config.Headers[configKey]
            /\ (~fromEnv /\ ~fromConfig) => cfg.value = defaultValue

\* The variable is set to the empty string, the loaded config holds the
\* key, and GetEnvOrConfig has returned the value of the config.
C28_Witness ==
    /\ cfg.status = "resolved"
    /\ cfg.args = <<TOKEN, <<"k">>, <<"d">>>>
    /\ TOKEN \in DOMAIN cfg.environ
    /\ cfg.environ[TOKEN] = <<>>
    /\ cfg.config # NilConfig
    /\ cfg.value = <<"v">>

\* C29: LoadConfig always returns a config that is not nil and no error,
\* whether the file is absent, unreadable or unparsable or may be read by
\* the group or the others; for a file with such permissions the warning is
\* written and nothing else happens differently: a readable file's values
\* are in the config; and a variable <APP>_BASE_URL that is not empty is
\* the BaseURL in every case.
C29_LoadConfigNeverFails ==
    cfg.status = "loaded" =>
        LET var == BaseURLVar(cfg.appName)
            insecure == FoundPath # <<>>
                        /\ IsInsecureMode(cfg.fs[FoundPath].mode)
            decoded == yamlUnmarshal(cfg.fs[FoundPath].doc, NewConfig).config
        IN  /\ cfg.config # NilConfig
            /\ err = ReturnNil
            /\ insecure <=> stderr # <<>>
            /\ (insecure /\ cfg.fs[FoundPath].readable) =>
                  /\ cfg.config.Headers = decoded.Headers
                  /\ cfg.config.BaseURL \in
                        {decoded.BaseURL, Getenv(cfg.environ, var)}
            /\ Getenv(cfg.environ, var) # <<>> =>
                  cfg.config.BaseURL = cfg.environ[var]

\* LoadConfig has returned for a file that the group may read: the warning
\* is written, the headers of the file are loaded, and the variable is the
\* BaseURL.
C29_Witness ==
    /\ cfg.status = "loaded"
    /\ FoundPath # <<>>
    /\ cfg.fs[FoundPath].mode = 416
    /\ stderr # <<>>
    /\ err = ReturnNil
    /\ <<"k">> \in DOMAIN cfg.config.Headers
    /\ cfg.config.BaseURL = <<"e">>

-----------------------------------------------------------------------------
(* package runtime: goroutines that call AddHeader and Do on one Runtime *)

MaxGoroutines == 3

Goroutines == 1..MaxGoroutines

\* No goroutine holds or waits for the write side of headersMu.
NoWriter == 0

\* headersMu.Lock() announces the writer once no other writer holds or
\* waits for the lock.
LockMayAnnounce(headersMu) == headersMu.writer = NoWriter

\* headersMu.Lock() returns once the readers have left.
LockMayProceed(headersMu) == headersMu.readers = {}

\* An RLock that never waits.
RLockNeverWaits(headersMu) == TRUE

\* headersMu.RLock() returns unless a writer holds or waits for the lock.
RLockMayProceed(headersMu) == headersMu.writer = NoWriter

InitConcurrent ==
    /\ rt = New(<<"h">>)
    /\ conc = [status    |-> "running",
               headersMu |-> [writer |-> NoWriter, readers |-> {}],
               pc        |-> [g \in Goroutines |-> "idle"],
               key       |-> [g \in Goroutines |-> <<>>],
               value     |-> [g \in Goroutines |-> <<>>],
               todo      |-> [g \in Goroutines |-> {}],
               applied   |-> [g \in Goroutines |-> <<>>],
               completed |-> <<>>,
               atMerge   |-> [g \in Goroutines |-> <<>>]]
    /\ out = <<>>
    /\ stderr = <<>>
    /\ err = NoReturn
    /\ sent = NotSent
    /\ resp = NoResponse
    /\ sse = NoSSE
    /\ cfg = NoConfig
    /\ req = NoRequest
    /\ built = NotBuilt
    /\ input = <<>>
    /\ call = NoCall
    /\ prev = NoCall
    /\ spec = [Operations |-> <<>>]
    /\ plan = NoPlan
    /\ files = NoFiles

ConcurrentIdle ==
    UNCHANGED <<input, call, prev, spec, plan, files, req, built,
                sent, resp, out, stderr, err, sse, cfg>>

\* A goroutine calls r.AddHeader(key, value).
GoAddHeader ==
    /\ \E g \in Goroutines, key \in {<<"a">>, <<"b">>},
          value \in {<<"1">>, <<"2">>} :
          /\ conc.pc[g] = "idle"
          /\ conc' = [conc EXCEPT !.pc[g] = "Lock", !.key[g] = key,
                                  !.value[g] = value]
    /\ rt' = rt
    /\ ConcurrentIdle

\* A goroutine calls r.Do(ctx, req) and has built the request.
GoDo ==
    /\ \E g \in Goroutines :
          /\ conc.pc[g] = "idle"
          /\ conc' = [conc EXCEPT !.pc[g] = "RLock"]
    /\ rt' = rt
    /\ ConcurrentIdle

\* r.headersMu.Lock(), first half: the writer is announced.
LockAnnounce ==
    /\ \E g \in Goroutines :
          /\ conc.pc[g] = "Lock"
          /\ LockMayAnnounce(conc.headersMu)
          /\ conc' = [conc EXCEPT !.pc[g] = "LockWait",
                                  !.headersMu.writer = g]
    /\ rt' = rt
    /\ ConcurrentIdle

\* r.headersMu.Lock(), second half: the readers have left, Lock returns.
LockReturn ==
    /\ \E g \in Goroutines :
          /\ conc.pc[g] = "LockWait"
          /\ LockMayProceed(conc.headersMu)
          /\ conc' = [conc EXCEPT !.pc[g] = "Write"]
    /\ rt' = rt
    /\ ConcurrentIdle

\* r.Headers[key] = value
WriteHeader ==
    /\ \E g \in Goroutines :
          /\ conc.pc[g] = "Write"
          /\ rt' = [rt EXCEPT
                       !.Headers = (conc.key[g] :> conc.value[g]) @@ @]
          /\ conc' = [conc EXCEPT !.pc[g] = "Unlock"]
    /\ ConcurrentIdle

\* The deferred r.headersMu.Unlock(): AddHeader returns.
UnlockReturn ==
    /\ \E g \in Goroutines :
          /\ conc.pc[g] = "Unlock"
          /\ conc' = [conc EXCEPT
                         !.pc[g] = "returned",
                         !.headersMu.writer = NoWriter,
                         !.completed =
                             (conc.key[g] :> conc.value[g]) @@ @]
    /\ rt' = rt
    /\ ConcurrentIdle

\* r.headersMu.RLock(): the merge begins, with the keys the range will go
\* through.
RLock ==
    /\ \E g \in Goroutines :
          /\ conc.pc[g] = "RLock"
          /\ RLockMayProceed(conc.headersMu)
          /\ conc' = [conc EXCEPT
                         !.pc[g] = "Range",
                         !.headersMu.readers = @ \cup {g},
                         !.todo[g] = DOMAIN rt.Headers,
                         !.atMerge[g] = conc.completed]
    /\ rt' = rt
    /\ ConcurrentIdle

\* One turn of for k, v := range r.Headers: httpReq.Header.Set(k, v).
RangeHeaders ==
    /\ \E g \in Goroutines :
          /\ conc.pc[g] = "Range"
          /\ \E k \in conc.todo[g] :
                conc' = [conc EXCEPT
                            !.todo[g] = @ \ {k},
                            !.applied[g] = (k :> rt.Headers[k]) @@ @]
    /\ rt' = rt
    /\ ConcurrentIdle

\* The range is over: r.headersMu.RUnlock().
RUnlock ==
    /\ \E g \in Goroutines :
          /\ conc.pc[g] = "Range"
          /\ conc.todo[g] = {}
          /\ conc' = [conc EXCEPT !.pc[g] = "merged",
                                  !.headersMu.readers = @ \ {g}]
    /\ rt' = rt
    /\ ConcurrentIdle

NextConcurrent ==
    \/ GoAddHeader
    \/ GoDo
    \/ LockAnnounce
    \/ LockReturn
    \/ WriteHeader
    \/ UnlockReturn
    \/ RLock
    \/ RangeHeaders
    \/ RUnlock

SpecConcurrent == InitConcurrent /\ [][NextConcurrent]_vars

-----------------------------------------------------------------------------
(* Properties of the header map under concurrent calls *)

\* The goroutine is between the return of Lock and the end of its write.
Writing(g) == conc.pc[g] = "Write"

\* The goroutine is in the header merge of Do, between RLock and RUnlock.
Merging(g) == conc.pc[g] = "Range"

\* C30: in every interleaving of AddHeader and Do calls on one Runtime, no
\* write of AddHeader to the map overlaps the write of another AddHeader or
\* the header merge of a Do, and the headers a Do has applied when its
\* merge is over are the map as it was when the merge began: every header
\* whose AddHeader had returned by then, with the value last added.
C30_WritesExcludedAndMergeIsSnapshot ==
    /\ \A g \in Goroutines, h \in Goroutines :
          (Writing(g) /\ h # g) => ~Writing(h) /\ ~Merging(h)
    /\ \A g \in Goroutines :
          /\ Merging(g) => rt.Headers = conc.atMerge[g]
          /\ conc.pc[g] = "merged" =>
                /\ conc.applied[g] = conc.atMerge[g]
                /\ \A k \in DOMAIN conc.atMerge[g] :
                      k \in DOMAIN conc.applied[g]

\* A Do has merged the header that an AddHeader call had added before its
\* merge began, and another AddHeader call has added a second header
\* since: the Do has applied the first header only.
C30_Witness ==
    \E g \in Goroutines, h \in Goroutines, w \in Goroutines :
        /\ conc.pc[g] = "merged"
        /\ conc.pc[h] = "returned" /\ conc.key[h] = <<"a">>
        /\ conc.pc[w] = "returned" /\ conc.key[w] = <<"b">>
        /\ DOMAIN conc.atMerge[g] = {<<"a">>}
        /\ DOMAIN conc.applied[g] = {<<"a">>}
        /\ DOMAIN rt.Headers = {<<"a">>, <<"b">>}

=============================================================================
